---- MODULE Spec2Model ----
(***************************************************************************)
(* A model of the lapathon runner: the sequential "full" runner (the       *)
(* Testing task of the Listr pipeline) and the bounded-concurrency test    *)
(* runner (a PQueue of run tasks).                                         *)
(*                                                                         *)
(* Spec      the full runner: one run at a time, descriptor order          *)
(* SpecTest  the test runner: PQueue with a fixed concurrency              *)
(* SpecLearn the Learning task that precedes the Testing task             *)
(***************************************************************************)
EXTENDS Integers, Sequences, FiniteSets, TLC

VARIABLES
    mode,         \* "full" (Listr runner) or "test" (PQueue test runner)
    conf,         \* conf.ts: disableFeedback, llmFeedback
    i,            \* full: index of the run of the for loop (1-based)
    run,          \* full: the descriptor runs[i] of the run in progress
    pc,           \* full: where the Testing task is suspended
    log,          \* full: the phases and Agent calls of the run in progress
    outcome,      \* full: per run, its status marker and message
    testResults,  \* full: ctx.testResults
    aborted,      \* full: the error that rejected tasks.run(), and its run
    spanStatus,   \* full: per run, the status its run-level span ended with
    finalScore,   \* full: the score printed after tasks.run()
    title,        \* full: the score in the title of the Testing task
    sent,         \* full: the Agent calls of the run in progress (text, uid);
                  \* learn: the Agent calls of the Learning task
    timings,      \* full: the number of latencies in timings.learn and .task
    spans,        \* full: the spans of the run in progress, started and ended
    li,           \* learn: index of the for loop of the Learning task (1-based)
    lpc,          \* learn: where the Learning task is suspended
    progress,     \* learn: the items of the task's ProgressTracker
    qi,           \* test: index of the for loop that adds the tasks
    qpc,          \* test: where the main module is
    task,         \* test: per run, the state of its queue task
    waiting,      \* test: PQueue's queue of tasks not yet started
    scores,       \* test: the scores array
    averageScore, \* test: the average printed once the queue is idle
    call,         \* call: one callAgent invocation
    clock,        \* adapter: Date.now()
    tmp,          \* adapter: the files of tmpFolder
    exec,         \* adapter: per testMavkaCode invocation, where it is
    arg,          \* function under study: its argument
    res           \* function under study: what the call gave

fullVars == <<i, run, pc, log, outcome, testResults, aborted, spanStatus,
             finalScore, title, sent, timings, spans>>
learnVars == <<li, lpc, progress>>
testVars == <<qi, qpc, task, waiting, scores, averageScore>>
unitVars == <<call, clock, tmp, exec>>
pureVars == <<arg, res>>
vars == <<mode, conf, i, run, pc, log, outcome, testResults, aborted,
          spanStatus, finalScore, title, sent, timings, spans, li, lpc, progress,
          qi, qpc, task, waiting, scores, averageScore,
          call, clock, tmp, exec, arg, res>>

----------------------------------------------------------------------------
(* Bounds of the model *)

\* runs.length of the full runner
MaxRuns == 2
\* runs.length of the test runner (above the concurrency of the queue)
QueueRuns == 5
\* the most test cases a descriptor's test-case text holds
MaxTests == 2

(* Program constants *)

\* new PQueue({ concurrency: 4 })
concurrency == 4

----------------------------------------------------------------------------
(* Scores: passed / total, a JavaScript number.  A number is kept as a     *)
(* reduced fraction <<p, n>>; 0 / 0 is NaN.                                *)

RECURSIVE GCD(_, _)
GCD(a, b) == IF b = 0 THEN a ELSE GCD(b, a % b)

NaN == <<0, 0>>

\* results.filter((r) => r.passed).length / results.length
Score(passed, total) ==
    IF total = 0 THEN NaN
    ELSE LET g == GCD(passed, total) IN <<passed \div g, total \div g>>

\* score < 1 (false for NaN)
LessThanOne(s) == s[2] > 0 /\ s[1] < s[2]

\* score === 0 (false for NaN)
IsZero(s) == s[2] > 0 /\ s[1] = 0

----------------------------------------------------------------------------
(* Errors *)

NoError == "none"

\* the messages of the AgentCallError class
AgentCallErrors == {"HTTP error", "Timeout", "Agent call failed"}

\* every other exception
FatalErrors ==
    {"Conflicting algorithm must have number > 100",
     "Missing uuidConflictingDocs",
     "Expected exactly one file",
     "Algorithm file is empty",
     "Missing mavkaCodeToReview",
     "Missing uuid",
     "TypeError: testCases",
     "interpreter error",
     "Missing algorithmPlain",
     "Missing idealMavkaCode",
     "Missing uuidFeedback",
     "TypeError: llmFeedback.invoke is not a function",
     "feedback model error"}

\* what fetch and the response can do to one call
AgentReplies == {"ok", "status", "shape", "abort", "network"}

\* callAgent: the validated response, or an AgentCallError
callAgent(reply) ==
    CASE reply = "ok"      -> [ok |-> TRUE, error |-> NoError]
      [] reply = "status"  -> [ok |-> FALSE, error |-> "HTTP error"]
      [] reply = "abort"   -> [ok |-> FALSE, error |-> "Timeout"]
      [] OTHER             -> [ok |-> FALSE, error |-> "Agent call failed"]

\* mutant: the catch blocks recognise no error as an AgentCallError
IsAgentCallErrorNever(e) == FALSE

\* error instanceof AgentCallError
IsAgentCallError(e) == e \in AgentCallErrors

----------------------------------------------------------------------------
(* Exercise descriptors (2_runs.json) and the prerequisite corpus *)

Missing == -1

\* a descriptor with every field present
Valid(t, c, a, n) ==
    [type |-> t, mavkaCodeToReview |-> (t = "review"), number |-> 150,
     isConflicted |-> c, isAfterFeedback |-> a,
     uuid |-> TRUE, uuidConflictingDocs |-> TRUE, uuidFeedback |-> TRUE,
     algorithmPlain |-> TRUE, idealMavkaCode |-> TRUE, testCases |-> n,
     docFiles |-> 1, docEmpty |-> FALSE]

\* the test-case text of a valid descriptor holds no test case, or MaxTests
ValidDescriptors ==
    {Valid(t, c, a, n) : t \in {"implement", "review"}, c \in BOOLEAN,
                         a \in BOOLEAN, n \in {0, MaxTests}}

\* d with one of the fields its run reads (or the corpus) broken
Broken(d) ==
    (IF d.isConflicted /\ ~d.isAfterFeedback
     THEN {[d EXCEPT !.number = 50],
           [d EXCEPT !.uuidConflictingDocs = FALSE],
           [d EXCEPT !.docFiles = 0],
           [d EXCEPT !.docFiles = 2],
           [d EXCEPT !.docEmpty = TRUE]}
     ELSE {})
    \cup
    (IF d.type = "review" THEN {[d EXCEPT !.mavkaCodeToReview = FALSE]} ELSE {})
    \cup
    {[d EXCEPT !.uuid = FALSE],
     [d EXCEPT !.testCases = Missing]}
    \cup
    (IF ~d.isAfterFeedback
     THEN {[d EXCEPT !.algorithmPlain = FALSE],
           [d EXCEPT !.idealMavkaCode = FALSE],
           [d EXCEPT !.uuidFeedback = FALSE]}
     ELSE {})

\* the descriptors of a batch: the valid ones, and the broken ones among
\* those with test cases
Descriptors ==
    ValidDescriptors \cup
    UNION {Broken(d) : d \in {v \in ValidDescriptors : v.testCases = MaxTests}}

NoRun == [type |-> "none"]

----------------------------------------------------------------------------
(* Batch summary *)

\* a + b on JavaScript numbers
Plus(a, b) ==
    IF a = NaN \/ b = NaN THEN NaN
    ELSE Score(a[1] * b[2] + b[1] * a[2], a[2] * b[2])

RECURSIVE Sum(_)
\* reduce((sum, r) => sum + r.score, 0)
Sum(rs) == IF rs = <<>> THEN <<0, 1>> ELSE Plus(Sum(Tail(rs)), Head(rs).score)

\* mutant: the sum is not divided by the number of scores
AverageIsSum(rs) == IF Len(rs) = 0 THEN NaN ELSE Sum(rs)

\* reduce(...) / length
Average(rs) ==
    LET s == Sum(rs) IN IF s = NaN THEN NaN ELSE Score(s[1], s[2] * Len(rs))

\* ctx.testResults.length ? reduce(...) / length : 0
avgScore(rs) == IF Len(rs) # 0 THEN Average(rs) ELSE <<0, 1>>

----------------------------------------------------------------------------
(* The full runner: one step of a run is a record saying where the run   *)
(* is suspended next, its log, and its status marker and message.         *)

\* SpanStatusCode.UNSET, the status of a span nobody set
Unset == [code |-> "UNSET", message |-> NoError]

\* { code: SpanStatusCode.OK }
Ok == [code |-> "OK", message |-> NoError]

\* { code: SpanStatusCode.ERROR, message }
Error(msg) == [code |-> "ERROR", message |-> msg]

\* span.setStatus(new) on a span that has not ended: UNSET is ignored, OK
\* is final, anything else replaces the current status
SetStatus(cur, new) ==
    IF new.code = "UNSET" \/ cur.code = "OK" THEN cur ELSE new

\* withSpan around a body that left the span with status `body`: after the
\* body returns setStatus(OK), after it throws setStatus(ERROR, String(error))
withSpan(body, threw, e) ==
    IF threw THEN SetStatus(body, Error(e)) ELSE SetStatus(body, Ok)

\* the run is suspended at an await
Await(p, lg) ==
    [pc |-> p, log |-> lg, status |-> "Running", error |-> NoError,
     span |-> Unset, sent |-> <<>>, learn |-> 0, task |-> 0,
     events |-> <<>>]

\* the run body returns; on a failure it has set the status of the
\* run-level span: parentSpan.setStatus({ code: ERROR, message: error })
Return(st, e, lg) ==
    [pc |-> "terminal", log |-> lg \o <<"Terminal">>, status |-> st, error |-> e,
     span |-> IF st = "Failed" THEN Error(e) ELSE Unset,
     sent |-> <<>>, learn |-> 0, task |-> 0,
     events |-> <<>>]

\* if (score === 0) parentSpan.setStatus({ code: ERROR, message: 'Score is 0' })
\* at the end of the run body
ScoreZeroStatus(sc, s) ==
    IF s.pc = "terminal" /\ s.status = "Success" /\ IsZero(sc)
    THEN [s EXCEPT !.span = Error("Score is 0")]
    ELSE s

\* mutant: every exception is turned into a failure of the run
ThrowAsFailure(e, lg) == Return("Failed", e, lg)

\* an exception leaves the run body: withSpan rethrows, the Listr task fails
Throw(e, lg) ==
    [pc |-> "aborted", log |-> lg, status |-> "Aborted", error |-> e,
     span |-> Unset, sent |-> <<>>, learn |-> 0, task |-> 0,
     events |-> <<>>]

\* catch (error) { if (error instanceof AgentCallError) return { success:
\* false, error: error.message }; throw error }, and the caller's
\* if (!result.success) { updateStatus(...); setStatus(ERROR); return }
Catch(e, lg) ==
    IF IsAgentCallError(e) THEN Return("Failed", e, lg) ELSE Throw(e, lg)

\* the value of the correlation id f of descriptor d: run.uuid,
\* run.uuidConflictingDocs, run.uuidFeedback
Uid(d, f) == IF d[f] THEN f ELSE "undefined"

\* callAgent(text, uid) is called, and the run goes on as s
Call(text, uid, s) == [s EXCEPT !.sent = <<[text |-> text, uid |-> uid]>> \o @]

\* tracer.startActiveSpan(name, run) starts a span
SpanStarted(name) == [ev |-> "start", span |-> name]

\* span.end()
SpanEnded(name) == [ev |-> "end", span |-> name]

\* withSpan(name, ...) starts its span, and the run goes on as s
Open(name, s) == [s EXCEPT !.events = <<SpanStarted(name)>> \o @]

\* the body of the span returned: finally { span.end() }, and the run goes
\* on as s
Close(name, s) == [s EXCEPT !.events = <<SpanEnded(name)>> \o @]

\* the spans started and not ended, outermost first
OpenSpans(evs) ==
    SelectSeq(evs, LAMBDA e : /\ e.ev = "start"
                              /\ \A k \in 1..Len(evs) : evs[k] # SpanEnded(e.span))

\* mutant: withSpan ends its span after the body returned, with no finally
UnwindOnReturnOnly(evs, threw) ==
    LET open == OpenSpans(evs) IN
    IF threw THEN <<>>
    ELSE [k \in 1..Len(open) |-> SpanEnded(open[Len(open) + 1 - k].span)]

\* the run body returns or an exception leaves it: the finally block of
\* every withSpan on the stack runs, innermost first
Unwind(evs, threw) ==
    LET open == OpenSpans(evs) IN
    [k \in 1..Len(open) |-> SpanEnded(open[Len(open) + 1 - k].span)]

\* mutant: the latency of a teaching call is not kept
PushLearnNothing(s) == s

\* timings.learn.push(ms), and the run goes on as s
PushLearn(s) == [s EXCEPT !.learn = @ + 1]

\* timings.task.push(result.ms), and the run goes on as s
PushTask(s) == [s EXCEPT !.task = @ + 1]

\* mutant: the post-feedback retry is taught again
NeedsTeachingOnRetry(d) == d.isConflicted

\* if (run.isConflicted && !run.isAfterFeedback)
NeedsTeaching(d) == d.isConflicted /\ ~d.isAfterFeedback

\* mutant: score <= 1 instead of score < 1
NeedsFeedbackPerfectToo(c, d, sc) ==
    ~c.disableFeedback /\ ~d.isAfterFeedback /\ (LessThanOne(sc) \/ sc = <<1, 1>>)

\* if (!disableFeedback && !run.isAfterFeedback && score < 1)
NeedsFeedback(c, d, sc) ==
    ~c.disableFeedback /\ ~d.isAfterFeedback /\ LessThanOne(sc)

\* mutant: with several prerequisite files the first one is taught
BeginTeachingTakesFirstFile(d, lg) ==
    LET lg1 == lg \o <<"ConflictTeaching">> IN
    IF d.number <= 100
    THEN Throw("Conflicting algorithm must have number > 100", lg1)
    ELSE IF ~d.uuidConflictingDocs
    THEN Throw("Missing uuidConflictingDocs", lg1)
    ELSE IF d.docFiles = 0
    THEN Catch("Expected exactly one file", lg1)
    ELSE IF d.docEmpty
    THEN Catch("Algorithm file is empty", lg1)
    ELSE Call("algorithmText", Uid(d, "uuidConflictingDocs"),
              Await("teach_wait", lg1 \o <<"call:conflict">>))

\* learnConflictingAlgorithm up to the await of callAgent
BeginTeaching(d, lg) ==
    LET lg1 == lg \o <<"ConflictTeaching">> IN
    IF d.number <= 100
    THEN Throw("Conflicting algorithm must have number > 100", lg1)
    ELSE IF ~d.uuidConflictingDocs
    THEN Throw("Missing uuidConflictingDocs", lg1)
    ELSE Open("Learning Conflicting Algorithm",
              IF d.docFiles # 1
              THEN Catch("Expected exactly one file", lg1)
              ELSE IF d.docEmpty
              THEN Catch("Algorithm file is empty", lg1)
              ELSE Call("algorithmText", Uid(d, "uuidConflictingDocs"),
                        Await("teach_wait", lg1 \o <<"call:conflict">>)))

\* mutant: the task prompt is sent under the feedback correlation id
BeginGenerationUnderFeedbackId(d, lg) ==
    LET lg1 == lg \o <<"Generation">> IN
    IF d.type # "implement" /\ ~d.mavkaCodeToReview
    THEN Throw("Missing mavkaCodeToReview", lg1)
    ELSE IF ~d.uuid
    THEN Catch("Missing uuid", lg1)
    ELSE Call("prompt", Uid(d, "uuidFeedback"),
              Await("gen_wait", lg1 \o <<"call:primary">>))

\* constructPrompt, then callAgentAndTest up to the await of callAgent
BeginGeneration(d, lg) ==
    LET lg1 == lg \o <<"Generation">> IN
    IF d.type # "implement" /\ ~d.mavkaCodeToReview
    THEN Throw("Missing mavkaCodeToReview", lg1)
    ELSE Open("Agent Call",
              IF ~d.uuid
              THEN Catch("Missing uuid", lg1)
              ELSE Call("prompt", Uid(d, "uuid"),
                        Await("gen_wait", lg1 \o <<"call:primary">>)))

\* mutant: the Testing span is opened before the code is extracted
BeginTestingBeforeExtraction(d, lg) ==
    LET lg1 == lg \o <<"Generation/", "Testing", "Extraction", "Extraction/">> IN
    IF d.testCases = Missing
    THEN Catch("TypeError: testCases", lg1)
    ELSE Await("test_wait", lg1)

\* mutant: a missing test-case text is reported as a failure of the run
BeginTestingMissingIsFailure(d, lg) ==
    LET lg1 == lg \o <<"Generation/", "Extraction", "Extraction/", "Testing">> IN
    IF d.testCases = Missing
    THEN Return("Failed", "Agent call failed", lg1)
    ELSE Await("test_wait", lg1)

\* extractCodeFromLLM, then the Testing span up to the await of testMavkaCode
BeginTesting(d, lg) ==
    LET lg1 == lg \o <<"Generation/", "Extraction", "Extraction/", "Testing">> IN
    IF d.testCases = Missing
    THEN Catch("TypeError: testCases", lg1)
    ELSE Open("Testing", Await("test_wait", lg1))

\* mutant: the feedback correlation id is not checked
BeginFeedbackUncheckedId(d, lg) ==
    LET lg1 == lg \o <<"Feedback">> IN
    IF ~d.algorithmPlain
    THEN Throw("Missing algorithmPlain", lg1)
    ELSE IF ~d.idealMavkaCode
    THEN Throw("Missing idealMavkaCode", lg1)
    ELSE Await("mentor_wait", lg1 \o <<"mentor">>)

\* deliverFeedback up to the await of generateFeedback
BeginFeedback(d, lg) ==
    LET lg1 == lg \o <<"Feedback">> IN
    IF ~d.algorithmPlain
    THEN Throw("Missing algorithmPlain", lg1)
    ELSE IF ~d.idealMavkaCode
    THEN Throw("Missing idealMavkaCode", lg1)
    ELSE IF ~d.uuidFeedback
    THEN Throw("Missing uuidFeedback", lg1)
    ELSE Open("Feedback", Await("mentor_wait", lg1 \o <<"mentor">>))

\* mutant: a score of 0 is reported as a failure of the run
AfterTestingZeroFails(c, d, sc, lg) ==
    LET lg1 == lg \o <<"Testing/">> IN
    IF IsZero(sc)
    THEN Return("Failed", "Agent call failed", lg1)
    ELSE IF NeedsFeedback(c, d, sc)
    THEN BeginFeedback(d, lg1)
    ELSE Return("Success", NoError, lg1)

\* the run body after callAgentAndTest succeeded and the score was pushed
AfterTesting(c, d, sc, lg) ==
    LET lg1 == lg \o <<"Testing/">> IN
    Close("Testing",
          Close("Agent Call",
                IF NeedsFeedback(c, d, sc)
                THEN BeginFeedback(d, lg1)
                ELSE ScoreZeroStatus(sc, Return("Success", NoError, lg1))))

\* llmFeedback.invoke(prompt): conf.ts exports llmFeedback as a function
\* returning the model, which has no invoke; a model returns text or throws
generateFeedback(c) ==
    IF c.llmFeedback = "factory"
    THEN {"TypeError: llmFeedback.invoke is not a function"}
    ELSE {NoError, "feedback model error"}

\* ctx.testResults.push({ run, score, testResults, code })
Push(rs, idx, sc) == Append(rs, [idx |-> idx, score |-> sc])

\* the phases of a run, in the order of the run body
Phases ==
    <<"Init", "ConflictTeaching", "Generation", "Extraction", "Testing",
      "Feedback", "Terminal">>

PhaseNames == {Phases[k] : k \in 1..Len(Phases)}

\* the phase a log is in: the last phase it entered before Terminal
LastPhase(lg) ==
    LET ks == {k \in 1..Len(lg) : lg[k] \in PhaseNames \ {"Terminal"}} IN
    lg[CHOOSE k \in ks : \A j \in ks : j <= k]

\* the step's effect on the run in progress
Apply(s) ==
    /\ pc' = s.pc
    /\ log' = s.log
    /\ outcome' = [outcome EXCEPT ![i] = [status |-> s.status, error |-> s.error,
                                        phase |-> LastPhase(s.log)]]
    /\ aborted' = IF s.pc = "aborted" THEN [by |-> i, error |-> s.error]
                  ELSE aborted
    /\ spanStatus' =
          IF s.pc \in {"terminal", "aborted"}
          THEN [spanStatus EXCEPT
                    ![i] = withSpan(s.span, s.pc = "aborted", s.error)]
          ELSE spanStatus
    /\ sent' = sent \o s.sent
    /\ spans' = LET evs == spans \o s.events IN
                IF s.pc \in {"terminal", "aborted"}
                THEN evs \o Unwind(evs, s.pc = "aborted")
                ELSE evs
    /\ timings' = [learn |-> timings.learn + s.learn,
                   task |-> timings.task + s.task]

----------------------------------------------------------------------------
(* Actions of the full runner *)

total == MaxRuns

\* for (let i = 0; i < total; i++) { const run = runs[i]; ... withSpan(...
StartRun ==
    /\ mode = "full" /\ pc = "loop" /\ i <= total
    /\ \E d \in Descriptors :
        /\ run' = d
        /\ Apply(Open("Run", IF NeedsTeaching(d) THEN BeginTeaching(d, <<"Init">>)
                              ELSE BeginGeneration(d, <<"Init">>)))
    /\ UNCHANGED <<mode, conf, learnVars, unitVars, pureVars, i, testResults, finalScore, title, testVars>>

\* mutant: a failed teaching call is sent once more
TeachReturnRetries ==
    /\ mode = "full" /\ pc = "teach_wait"
    /\ \E reply \in AgentReplies :
        LET r == callAgent(reply) IN
        Apply(IF r.ok
              THEN Close("Learning Conflicting Algorithm",
                         PushLearn(BeginGeneration(run,
                                                   log \o <<"ConflictTeaching/">>)))
              ELSE IF Len(sent) < 2
              THEN Call("algorithmText", Uid(run, "uuidConflictingDocs"),
                        Await("teach_wait", log \o <<"AgentCallError">>))
              ELSE Catch(r.error, log \o <<"AgentCallError">>))
    /\ UNCHANGED <<mode, conf, learnVars, unitVars, pureVars, i, run, testResults, finalScore, title, testVars>>

\* callAgent(algorithmText, run.uuidConflictingDocs) settles
TeachReturn ==
    /\ mode = "full" /\ pc = "teach_wait"
    /\ \E reply \in AgentReplies :
        LET r == callAgent(reply) IN
        Apply(IF r.ok
              THEN Close("Learning Conflicting Algorithm",
                         PushLearn(BeginGeneration(run,
                                                   log \o <<"ConflictTeaching/">>)))
              ELSE Catch(r.error, log \o <<"AgentCallError">>))
    /\ UNCHANGED <<mode, conf, learnVars, unitVars, pureVars, i, run, testResults, finalScore, title, testVars>>

\* callAgent(prompt, run.uuid) settles
AgentReturn ==
    /\ mode = "full" /\ pc = "gen_wait"
    /\ \E reply \in AgentReplies :
        LET r == callAgent(reply) IN
        Apply(IF r.ok THEN BeginTesting(run, log) ELSE Catch(r.error, log \o <<"AgentCallError">>))
    /\ UNCHANGED <<mode, conf, learnVars, unitVars, pureVars, i, run, testResults, finalScore, title, testVars>>

\* testMavkaCode settles with its results: the score is pushed
TestReturn ==
    /\ mode = "full" /\ pc = "test_wait"
    /\ \E passed \in 0..run.testCases :
        LET sc == Score(passed, run.testCases) IN
        /\ testResults' = Push(testResults, i, sc)
        /\ Apply(PushTask(AfterTesting(conf, run, sc, log)))
    /\ UNCHANGED <<mode, conf, learnVars, unitVars, pureVars, i, run, finalScore, title, testVars>>

\* testMavkaCode rejects (Bun.write or Bun.spawn throws)
TestThrows ==
    /\ mode = "full" /\ pc = "test_wait"
    /\ Apply(Catch("interpreter error", log))
    /\ UNCHANGED <<mode, conf, learnVars, unitVars, pureVars, i, run, testResults, finalScore, title, testVars>>

\* mutant: an exception of generateFeedback fails the run and no more
MentorReturnRecovers ==
    /\ mode = "full" /\ pc = "mentor_wait"
    /\ \E r \in generateFeedback(conf) :
        Apply(IF r = NoError
              THEN Call("feedbackMsg", Uid(run, "uuidFeedback"),
                        Await("fb_wait", log \o <<"mentor/", "call:feedback">>))
              ELSE Return("Failed", r, log))
    /\ UNCHANGED <<mode, conf, learnVars, unitVars, pureVars, i, run, testResults, finalScore, title, testVars>>

\* generateFeedback settles; on text, callAgent(feedbackMsg, run.uuidFeedback)
MentorReturn ==
    /\ mode = "full" /\ pc = "mentor_wait"
    /\ \E r \in generateFeedback(conf) :
        Apply(IF r = NoError
              THEN Call("feedbackMsg", Uid(run, "uuidFeedback"),
                        Await("fb_wait", log \o <<"mentor/", "call:feedback">>))
              ELSE Catch(r, log))
    /\ UNCHANGED <<mode, conf, learnVars, unitVars, pureVars, i, run, testResults, finalScore, title, testVars>>

\* mutant: the score of the run is recomputed after a delivered feedback
FeedbackReturnRescores ==
    /\ mode = "full" /\ pc = "fb_wait"
    /\ \E reply \in AgentReplies :
        LET r == callAgent(reply) IN
        /\ Apply(IF r.ok
                 THEN PushLearn(Return("Success", NoError, log \o <<"Feedback/">>))
                 ELSE Catch(r.error, log \o <<"AgentCallError">>))
        /\ testResults' =
              IF r.ok
              THEN [testResults EXCEPT ![Len(testResults)].score = <<1, 1>>]
              ELSE testResults
    /\ UNCHANGED <<mode, conf, learnVars, unitVars, pureVars, i, run, finalScore, title, testVars>>

\* callAgent(feedbackMsg, run.uuidFeedback) settles
FeedbackReturn ==
    /\ mode = "full" /\ pc = "fb_wait"
    /\ \E reply \in AgentReplies :
        LET r == callAgent(reply) IN
        Apply(IF r.ok
              THEN PushLearn(ScoreZeroStatus(
                       testResults[Len(testResults)].score,
                       Return("Success", NoError, log \o <<"Feedback/">>)))
              ELSE Catch(r.error, log \o <<"AgentCallError">>))
    /\ UNCHANGED <<mode, conf, learnVars, unitVars, pureVars, i, run, testResults, finalScore, title, testVars>>

\* mutant: the loop goes on to the next descriptor without awaiting the run
EndRunWithoutAwait ==
    /\ mode = "full"
    /\ pc \in {"terminal", "teach_wait", "gen_wait", "test_wait", "mentor_wait",
               "fb_wait"}
    /\ i' = i + 1
    /\ pc' = "loop"
    /\ run' = NoRun
    /\ log' = <<>>
    /\ sent' = <<>>
    /\ spans' = <<>>
    /\ UNCHANGED <<mode, conf, learnVars, unitVars, pureVars, outcome, testResults, aborted, spanStatus,
                   finalScore, title, timings, testVars>>

\* the run-level withSpan returns and the iteration's block ends; i++
EndRun ==
    /\ mode = "full" /\ pc = "terminal"
    /\ i' = i + 1
    /\ pc' = "loop"
    /\ run' = NoRun
    /\ log' = <<>>
    /\ sent' = <<>>
    /\ spans' = <<>>
    /\ UNCHANGED <<mode, conf, learnVars, unitVars, pureVars, outcome, testResults, aborted, spanStatus,
                   finalScore, title, timings, testVars>>

\* the loop ends and the task sets its title, tasks.run() resolves, the
\* final score is printed
Finish ==
    /\ mode = "full" /\ pc = "loop" /\ i > total
    /\ pc' = "done"
    /\ title' = Average(testResults)
    /\ finalScore' = avgScore(testResults)
    /\ UNCHANGED <<mode, conf, learnVars, unitVars, pureVars, i, run, log, outcome, testResults, aborted,
                   spanStatus, sent, timings, spans, testVars>>

----------------------------------------------------------------------------
(* Specification of the full runner *)

\* conf.ts as it is in the repository
ShippedConf == [disableFeedback |-> FALSE, llmFeedback |-> "factory"]

\* conf.ts is edited by the operator ("change this to your feedback model,
\* or set disableFeedback = true"): as it is in the repository, with
\* feedback disabled, and with llmFeedback set to a chat model
Confs ==
    {[disableFeedback |-> FALSE, llmFeedback |-> "factory"],
     [disableFeedback |-> TRUE, llmFeedback |-> "factory"],
     [disableFeedback |-> FALSE, llmFeedback |-> "model"]}

NotAborted == [by |-> 0, error |-> NoError]
Pending == [status |-> "Pending", error |-> NoError, phase |-> "none"]

InitFullVars ==
    /\ i = 1
    /\ run = NoRun
    /\ pc = "loop"
    /\ log = <<>>
    /\ outcome = [r \in 1..total |-> Pending]
    /\ testResults = <<>>
    /\ aborted = NotAborted
    /\ spanStatus = [r \in 1..total |-> Unset]
    /\ finalScore = "none"
    /\ title = "none"
    /\ sent = <<>>
    /\ timings = [learn |-> 0, task |-> 0]
    /\ spans = <<>>

\* the Learning task has completed and the Testing task begins
InitLearnVars ==
    /\ li = 1
    /\ lpc = "testing"
    /\ progress = <<>>

InitTestVars ==
    /\ qi = 1
    /\ qpc = "adding"
    /\ task = [t \in 1..QueueRuns |-> "new"]
    /\ waiting = <<>>
    /\ scores = <<>>
    /\ averageScore = "none"

InitUnitVars ==
    /\ call = [pc |-> "none"]
    /\ clock = 0
    /\ tmp = <<>>
    /\ exec = <<>>

\* no function is under study
NotCalled == [done |-> FALSE]

InitPureVars ==
    /\ arg = <<>>
    /\ res = NotCalled

Init ==
    /\ mode = "full"
    /\ conf \in Confs
    /\ InitFullVars
    /\ InitLearnVars
    /\ InitTestVars
    /\ InitUnitVars
    /\ InitPureVars

Next ==
    \/ StartRun
    \/ TeachReturn
    \/ AgentReturn
    \/ TestReturn
    \/ TestThrows
    \/ MentorReturn
    \/ FeedbackReturn
    \/ EndRun
    \/ Finish

Spec == Init /\ [][Next]_vars

----------------------------------------------------------------------------
(* The test runner: a PQueue of one task per run *)

totalTest == QueueRuns

Tasks == 1..totalTest

\* the tasks whose function has started and not settled (PQueue's pending)
InFlight == {t \in Tasks : task[t] \in {"agent", "testing"}}

\* mutant: the queue starts every task it is given
CanStartUnbounded(pending) == TRUE

\* PQueue: another task may start while pending < concurrency
CanStart(pending) == pending < concurrency

\* PQueue, when a task settles: pending--, then the next queued task starts
Settle(t, st) ==
    LET settled == [task EXCEPT ![t] = st] IN
    IF waiting # <<>> /\ CanStart(Cardinality(InFlight) - 1)
    THEN /\ task' = [settled EXCEPT ![Head(waiting)] = "agent"]
         /\ waiting' = Tail(waiting)
    ELSE /\ task' = settled
         /\ UNCHANGED waiting

\* for (...) queue.add(async () => { ... }): the task starts at once, up to
\* its await of callAgent, or is queued
QAdd ==
    /\ mode = "test" /\ qpc = "adding" /\ qi <= totalTest
    /\ IF CanStart(Cardinality(InFlight))
       THEN task' = [task EXCEPT ![qi] = "agent"] /\ UNCHANGED waiting
       ELSE task' = [task EXCEPT ![qi] = "queued"] /\ waiting' = Append(waiting, qi)
    /\ qi' = qi + 1
    /\ UNCHANGED <<mode, conf, learnVars, unitVars, pureVars, fullVars, qpc, scores, averageScore>>

\* the loop has ended: await queue.onIdle()
QAwaitIdle ==
    /\ mode = "test" /\ qpc = "adding" /\ qi > totalTest
    /\ qpc' = "waiting"
    /\ UNCHANGED <<mode, conf, learnVars, unitVars, pureVars, fullVars, qi, task, waiting, scores, averageScore>>

\* callAgent(prompt, run.uuid) settles in task t; on a response the code is
\* extracted and the Testing span awaits testMavkaCode, unless
\* run.private.testCases.split throws; every error is rethrown by the task
QAgentReturn(t) ==
    /\ mode = "test" /\ qpc = "waiting" /\ task[t] = "agent"
    /\ \E reply \in AgentReplies, hasTestCases \in BOOLEAN :
        IF callAgent(reply).ok /\ hasTestCases
        THEN task' = [task EXCEPT ![t] = "testing"] /\ UNCHANGED waiting
        ELSE Settle(t, "thrown")
    /\ UNCHANGED <<mode, conf, learnVars, unitVars, pureVars, fullVars, qi, qpc, scores, averageScore>>

\* testMavkaCode settles in task t with its results: scores.push(score)
QTestReturn(t) ==
    /\ mode = "test" /\ qpc = "waiting" /\ task[t] = "testing"
    /\ \E n \in {0, MaxTests} : \E passed \in 0..n :
        scores' = Append(scores, Score(passed, n))
    /\ Settle(t, "done")
    /\ UNCHANGED <<mode, conf, learnVars, unitVars, pureVars, fullVars, qi, qpc, averageScore>>

\* testMavkaCode rejects in task t: the task rethrows
QTestThrows(t) ==
    /\ mode = "test" /\ qpc = "waiting" /\ task[t] = "testing"
    /\ Settle(t, "thrown")
    /\ UNCHANGED <<mode, conf, learnVars, unitVars, pureVars, fullVars, qi, qpc, scores, averageScore>>

\* the promise of queue.add of a task that threw is rejected and nobody
\* handles it: the runtime may end the process there (or only report it)
QUnhandledRejection ==
    /\ mode = "test" /\ qpc = "waiting"
    /\ \E t \in Tasks : task[t] = "thrown"
    /\ qpc' = "crashed"
    /\ UNCHANGED <<mode, conf, learnVars, unitVars, pureVars, fullVars, qi, task, waiting, scores, averageScore>>

\* queue.onIdle() resolves: the average score is printed
QIdle ==
    /\ mode = "test" /\ qpc = "waiting"
    /\ InFlight = {} /\ waiting = <<>>
    /\ qpc' = "done"
    /\ averageScore' = Average([k \in 1..Len(scores) |-> [score |-> scores[k]]])
    /\ UNCHANGED <<mode, conf, learnVars, unitVars, pureVars, fullVars, qi, task, waiting, scores>>

InitTest ==
    /\ mode = "test"
    /\ conf \in {c \in Confs : ~c.disableFeedback /\ c.llmFeedback = "factory"}
    /\ InitFullVars
    /\ InitLearnVars
    /\ InitTestVars
    /\ InitUnitVars
    /\ InitPureVars

NextTest ==
    \/ QAdd
    \/ QAwaitIdle
    \/ \E t \in Tasks : QAgentReturn(t)
    \/ \E t \in Tasks : QTestReturn(t)
    \/ \E t \in Tasks : QTestThrows(t)
    \/ QUnhandledRejection
    \/ QIdle

SpecTest == InitTest /\ [][NextTest]_vars

----------------------------------------------------------------------------
(* callAgent, step by step: the timer, the fetch, the body, the catch      *)

\* Timeout of the requests to the Agent (conf.ts)
agentTimeoutMs == 20000

\* performance.now() when callAgent is entered
StartTimes == {0, 1500}

\* how long one wait of the event loop may last
Waits == {agentTimeoutMs \div 4, agentTimeoutMs \div 2}

\* the status codes an Agent answers with
Statuses == {200, 201, 404, 500}

\* response.ok
IsOk(status) == status >= 200 /\ status <= 299

\* the bodies an Agent answers with: not JSON at all, or a JSON object
\* whose keys have these JSON types ("absent": no such key)
Bodies ==
    {[json |-> FALSE]} \cup
    {[json |-> TRUE, response |-> a, references |-> b, reasoning |-> c,
      extra |-> x] :
        a \in {"absent", "string", "number"}, b \in {"absent", "strings", "string"},
        c \in {"absent", "string"}, x \in {"absent", "string"}}

\* expectedServerOutput.parse: response a string, references an optional
\* array of strings, reasoning an optional string; unknown keys are dropped
MatchesShape(body) ==
    /\ body.response = "string"
    /\ body.references \in {"absent", "strings"}
    /\ body.reasoning \in {"absent", "string"}

Validated(body) ==
    [response |-> body.response, references |-> body.references,
     reasoning |-> body.reasoning]

NoResult == [kind |-> "none"]

\* return { ...json, ms: Math.round(performance.now() - start) }
Returned(body, start, now) ==
    [kind |-> "returned", json |-> Validated(body), ms |-> now - start]

Thrown(class, message) == [kind |-> "thrown", class |-> class, message |-> message]

\* mutant: the catch block lets a validation error through as it is
CatchOfCallRethrowsZod(class, message) ==
    IF class \in {"AgentCallError", "ZodError"} THEN Thrown(class, message)
    ELSE IF class = "AbortError" THEN Thrown("AgentCallError", "Timeout")
    ELSE Thrown("AgentCallError", "Agent call failed")

\* catch (error): an AgentCallError is rethrown, an AbortError becomes the
\* Timeout AgentCallError, everything else 'Agent call failed'
CatchOfCall(class, message) ==
    IF class = "AgentCallError" THEN Thrown(class, message)
    ELSE IF class = "AbortError" THEN Thrown("AgentCallError", "Timeout")
    ELSE Thrown("AgentCallError", "Agent call failed")

\* callAgent has not been called
IdleCall(t) ==
    [pc |-> "idle", start |-> t, now |-> t, timer |-> "none", status |-> 0,
     body |-> [json |-> FALSE], cause |-> "none", result |-> NoResult]

\* mutant: the timer is not cleared when the call settles
SettleCallKeepsTimer(r, cause) ==
    call' = [call EXCEPT !.pc = "done", !.result = r, !.cause = cause]

\* the call settles with result r because of `cause`; finally clearTimeout
SettleCall(r, cause) ==
    call' = [call EXCEPT !.pc = "done", !.result = r, !.cause = cause,
                         !.timer = "cleared"]

\* setTimeout(() => controller.abort(), agentTimeoutMs); start = now; fetch
CallStart ==
    /\ mode = "call" /\ call.pc = "idle"
    /\ call' = [call EXCEPT !.pc = "fetch", !.timer = "armed", !.start = call.now]
    /\ UNCHANGED <<mode, conf, learnVars, fullVars, testVars, pureVars, clock, tmp, exec>>

\* time passes while fetch or the body is awaited and the timer is not due
CallWait ==
    /\ mode = "call" /\ call.pc \in {"fetch", "json"}
    /\ call.now - call.start < agentTimeoutMs
    /\ \E w \in Waits : call' = [call EXCEPT !.now = call.now + w]
    /\ UNCHANGED <<mode, conf, learnVars, fullVars, testVars, pureVars, clock, tmp, exec>>

\* the timer is due: controller.abort() rejects the pending await with an
\* AbortError
CallTimerFires ==
    /\ mode = "call" /\ call.pc \in {"fetch", "json"}
    /\ call.timer = "armed"
    /\ call.now - call.start >= agentTimeoutMs
    /\ SettleCall(CatchOfCall("AbortError", "The operation was aborted"), "abort")
    /\ UNCHANGED <<mode, conf, learnVars, fullVars, testVars, pureVars, clock, tmp, exec>>

\* fetch resolves with a response: if (!response.ok) throw new AgentCallError
CallFetchResolves ==
    /\ mode = "call" /\ call.pc = "fetch"
    /\ \E status \in Statuses :
        IF IsOk(status)
        THEN call' = [call EXCEPT !.pc = "json", !.status = status]
        ELSE /\ call' = [call EXCEPT !.pc = "done", !.status = status,
                                     !.cause = "status", !.timer = "cleared",
                                     !.result = CatchOfCall("AgentCallError",
                                                            "HTTP error")]
    /\ UNCHANGED <<mode, conf, learnVars, fullVars, testVars, pureVars, clock, tmp, exec>>

\* fetch rejects: the connection failed
CallFetchRejects ==
    /\ mode = "call" /\ call.pc = "fetch"
    /\ SettleCall(CatchOfCall("TypeError", "fetch failed"), "network")
    /\ UNCHANGED <<mode, conf, learnVars, fullVars, testVars, pureVars, clock, tmp, exec>>

\* response.json() settles and expectedServerOutput.parse checks the body
CallBodySettles ==
    /\ mode = "call" /\ call.pc = "json"
    /\ \E body \in Bodies :
        call' = [call EXCEPT
                    !.pc = "done", !.body = body, !.timer = "cleared",
                    !.cause = IF ~body.json THEN "syntax"
                              ELSE IF MatchesShape(body) THEN "ok" ELSE "shape",
                    !.result =
                        IF ~body.json
                        THEN CatchOfCall("SyntaxError", "Failed to parse JSON")
                        ELSE IF MatchesShape(body)
                        THEN Returned(body, call.start, call.now)
                        ELSE CatchOfCall("ZodError", "invalid body")]
    /\ UNCHANGED <<mode, conf, learnVars, fullVars, testVars, pureVars, clock, tmp, exec>>

InitCall ==
    /\ mode = "call"
    /\ conf = ShippedConf
    /\ InitFullVars
    /\ InitLearnVars
    /\ InitTestVars
    /\ \E t \in StartTimes : call = IdleCall(t)
    /\ clock = 0
    /\ tmp = <<>>
    /\ exec = <<>>
    /\ InitPureVars

NextCall ==
    \/ CallStart
    \/ CallWait
    \/ CallTimerFires
    \/ CallFetchResolves
    \/ CallFetchRejects
    \/ CallBodySettles

SpecCall == InitCall /\ [][NextCall]_vars

----------------------------------------------------------------------------
(* The Execution Adapter: testMavkaCode, one step per await, for two       *)
(* invocations that share the temp folder (two tasks of the test runner's  *)
(* queue).  Text is a sequence of characters; "sp" and "nl" are white      *)
(* space and "esc" is one ANSI colour sequence ESC [ ... m.                *)

\* the largest value of Date.now() (in steps of the clock)
MaxClock == 1
\* the largest value of Math.floor(Math.random() * 1000000), scaled down
MaxRandom == 1

\* the testMavkaCode invocations in progress at the same time: the first
\* one has MaxTests test cases, the second one a single test case
Invocations == {1, 2}

\* `${tmpFolder}/тест_${Date.now()}_${randomPart}.м`
TempFile(now, randomPart) == <<now, randomPart>>

TempFiles == {TempFile(t, r) : t \in 0..MaxClock, r \in 0..MaxRandom}

\* no such file (by: the invocation that wrote the file, 0 for none; left:
\* the file was left behind by a rejected write or a failed unlink)
Absent == [by |-> 0, left |-> FALSE]

WhiteSpace == {"sp", "nl"}

RECURSIVE TrimStart(_)
TrimStart(s) ==
    IF s # <<>> /\ Head(s) \in WhiteSpace THEN TrimStart(Tail(s)) ELSE s

RECURSIVE TrimEnd(_)
TrimEnd(s) ==
    IF s # <<>> /\ s[Len(s)] \in WhiteSpace
    THEN TrimEnd(SubSeq(s, 1, Len(s) - 1))
    ELSE s

\* stdout.trim()
Trim(s) == TrimEnd(TrimStart(s))

\* .replace(/\x1b\[[0-9;]*m/g, '')
StripAnsi(s) == SelectSeq(s, LAMBDA c : c # "esc")

\* const actual = stdout.trim().replace(/\x1b\[[0-9;]*m/g, '')
Normalize(stdout) == StripAnsi(Trim(stdout))

\* what an interpreter writes to stdout
Stdouts ==
    {<<"4", "2", "nl">>, <<"esc", "4", "2", "esc", "nl">>, <<"7", "nl">>}

\* what an interpreter writes to stderr
Stderrs == {<<>>, <<"w", "a", "r", "n">>}

\* the expected text of a test case (trimmed, not empty)
Expecteds == {<<"4", "2">>}

\* results.push({ passed: actual === testCase.expected, ...,
\*                actual: stderr ? `ERROR: ${stderr}` : actual })
TestResultOf(stdout, stderr, expected) ==
    [stdout |-> stdout, stderr |-> stderr, expected |-> expected,
     passed |-> Normalize(stdout) = expected,
     actual |-> IF stderr # <<>> THEN <<"ERROR: ">> \o stderr
                ELSE Normalize(stdout)]

NoTestResult == [passed |-> "none"]

\* an invocation that has not started, with n test cases
NewExec(n) ==
    [pc |-> "next", case |-> 1, n |-> n, name |-> "none", read |-> -1,
     how |-> "none", last |-> NoTestResult, results |-> <<>>]

\* mutant: the temp file is deleted only when the test case gave a result
LeaveTryNoCleanupOnThrow(x, how) ==
    IF how = "throw" THEN [x EXCEPT !.pc = "thrown", !.how = how]
    ELSE [x EXCEPT !.pc = "cleanup", !.how = how]

\* control leaves the try block, with a result pushed or an exception in
\* flight: the finally block runs next
LeaveTry(x, how) == [x EXCEPT !.pc = "cleanup", !.how = how]

\* mutant: the result of a test case that did not pass is not pushed
PushResultIfPassed(x, r) ==
    IF r.passed
    THEN [x EXCEPT !.last = r, !.results = Append(@, [case |-> x.case])]
    ELSE [x EXCEPT !.last = r]

\* results.push({ passed, input: testCase.input, expected:
\* testCase.expected, actual }): of a pushed result the array keeps here
\* the test case whose input and expected text it carries, and last keeps
\* the verdict and the output until the finally block is over
PushResult(x, r) ==
    [x EXCEPT !.last = r, !.results = Append(@, [case |-> x.case])]

\* after the finally block: the exception goes on, or the loop does
AfterFinally(x) ==
    LET y == [x EXCEPT !.last = NoTestResult, !.name = "none", !.read = -1] IN
    IF x.how = "throw" THEN [y EXCEPT !.pc = "thrown"]
    ELSE IF x.case = x.n THEN [y EXCEPT !.pc = "returned"]
    ELSE [y EXCEPT !.pc = "next", !.case = x.case + 1]

\* Date.now() advances
ClockTick ==
    /\ mode = "adapter" /\ clock < MaxClock
    /\ clock' = clock + 1
    /\ UNCHANGED <<mode, conf, learnVars, fullVars, testVars, pureVars, call, tmp, exec>>

\* the next test case of invocation e: the script is written to a new temp
\* file, await Bun.write(tempFile, script), which is outside the try block
ExecWrite(e) ==
    /\ mode = "adapter" /\ exec[e].pc = "next"
    /\ \E randomPart \in 0..MaxRandom :
        LET f == TempFile(clock, randomPart) IN
        \/ \* written
           /\ tmp' = [tmp EXCEPT ![f] = [by |-> e, left |-> FALSE]]
           /\ exec' = [exec EXCEPT ![e].pc = "spawn", ![e].name = f]
        \/ \* Bun.write rejects, and the file was not created
           /\ UNCHANGED tmp
           /\ exec' = [exec EXCEPT ![e].pc = "thrown", ![e].how = "throw"]
        \/ \* Bun.write rejects after it created the file
           /\ tmp' = [tmp EXCEPT ![f] = [by |-> e, left |-> TRUE]]
           /\ exec' = [exec EXCEPT ![e].pc = "thrown", ![e].how = "throw"]
    /\ UNCHANGED <<mode, conf, learnVars, fullVars, testVars, pureVars, call, clock>>

\* Bun.spawn([mavkaPath, tempFile]) starts the interpreter, or throws
ExecSpawn(e) ==
    /\ mode = "adapter" /\ exec[e].pc = "spawn"
    /\ \/ exec' = [exec EXCEPT ![e].pc = "started"]
       \/ exec' = [exec EXCEPT ![e] = LeaveTry(exec[e], "throw")]
    /\ UNCHANGED <<mode, conf, learnVars, fullVars, testVars, pureVars, call, clock, tmp>>

\* the interpreter of invocation e opens its program file
ExecLoad(e) ==
    /\ mode = "adapter" /\ exec[e].pc = "started"
    /\ exec' = [exec EXCEPT ![e].pc = "running",
                            ![e].read = tmp[exec[e].name].by]
    /\ UNCHANGED <<mode, conf, learnVars, fullVars, testVars, pureVars, call, clock, tmp>>

\* the interpreter exits and its output was read: the result is pushed; or
\* reading its output throws
ExecExit(e) ==
    /\ mode = "adapter" /\ exec[e].pc = "running"
    /\ \/ \E stdout \in Stdouts, stderr \in Stderrs, expected \in Expecteds :
            exec' = [exec EXCEPT
                        ![e] = LeaveTry(PushResult(exec[e],
                                   TestResultOf(stdout, stderr, expected)),
                                   "result")]
       \/ exec' = [exec EXCEPT ![e] = LeaveTry(exec[e], "throw")]
    /\ UNCHANGED <<mode, conf, learnVars, fullVars, testVars, pureVars, call, clock, tmp>>

\* finally { try { unlinkSync(tempFile) } catch { } }: the file is removed,
\* or unlinkSync throws (no such file, or the file cannot be removed) and
\* the error is ignored
ExecCleanup(e) ==
    /\ mode = "adapter" /\ exec[e].pc = "cleanup"
    /\ LET f == exec[e].name IN
       \/ /\ tmp[f] # Absent
          /\ tmp' = [tmp EXCEPT ![f] = Absent]
       \/ /\ tmp[f] = Absent
          /\ UNCHANGED tmp
       \/ /\ tmp[f] # Absent
          /\ tmp' = [tmp EXCEPT ![f].left = TRUE]
    /\ exec' = [exec EXCEPT ![e] = AfterFinally(exec[e])]
    /\ UNCHANGED <<mode, conf, learnVars, fullVars, testVars, pureVars, call, clock>>

InitAdapter ==
    /\ mode = "adapter"
    /\ conf = ShippedConf
    /\ InitFullVars
    /\ InitLearnVars
    /\ InitTestVars
    /\ call = [pc |-> "none"]
    /\ clock = 0
    /\ tmp = [f \in TempFiles |-> Absent]
    /\ exec = [e \in Invocations |-> NewExec(IF e = 1 THEN MaxTests ELSE 1)]
    /\ InitPureVars

NextAdapter ==
    \/ ClockTick
    \/ \E e \in Invocations : ExecWrite(e)
    \/ \E e \in Invocations : ExecSpawn(e)
    \/ \E e \in Invocations : ExecLoad(e)
    \/ \E e \in Invocations : ExecExit(e)
    \/ \E e \in Invocations : ExecCleanup(e)

SpecAdapter == InitAdapter /\ [][NextAdapter]_vars

----------------------------------------------------------------------------
(* Vocabulary of the properties *)

InLog(e) == \E k \in 1..Len(log) : log[k] = e

Count(e) == Cardinality({k \in 1..Len(log) : log[k] = e})

Pos(e) == CHOOSE k \in 1..Len(log) : log[k] = e

\* the entries of ctx.testResults pushed by run r
Entries(r) == {k \in 1..Len(testResults) : testResults[k].idx = r}

\* the events of a run in the order of the Run State Machine
EventOrder ==
    <<"Init", "ConflictTeaching", "call:conflict", "ConflictTeaching/",
      "Generation", "call:primary", "Generation/", "Extraction", "Extraction/",
      "Testing", "Testing/", "Feedback", "mentor", "mentor/", "call:feedback",
      "Feedback/", "AgentCallError", "Terminal">>

Rank(e) == CHOOSE k \in 1..Len(EventOrder) : EventOrder[k] = e

PhaseEnds ==
    {"ConflictTeaching/", "Generation/", "Extraction/", "Testing/", "Feedback/"}

\* the run in progress has reached a check that its descriptor fails
FatalOnPath ==
    \/ /\ InLog("ConflictTeaching")
       /\ \/ run.number <= 100
          \/ ~run.uuidConflictingDocs
          \/ run.docFiles # 1
          \/ run.docEmpty
    \/ /\ InLog("Generation")
       /\ \/ run.type = "review" /\ ~run.mavkaCodeToReview
          \/ ~run.uuid
    \/ /\ InLog("Testing")
       /\ run.testCases = Missing
    \/ /\ InLog("Feedback")
       /\ \/ ~run.algorithmPlain
          \/ ~run.idealMavkaCode
          \/ ~run.uuidFeedback

----------------------------------------------------------------------------
(* C1..C10 *)

\* C1: in the test runner at most `concurrency` (4) runs are started and
\* not finished (awaiting the Agent or the interpreter) at any instant,
\* whatever the order in which the calls settle.
C1_AtMostWInFlight ==
    mode = "test" => Cardinality(InFlight) <= concurrency

\* the budget is full after a queued task took the place of a settled one
C1_Witness ==
    /\ mode = "test"
    /\ Cardinality(InFlight) = concurrency
    /\ waiting = <<>>
    /\ task[totalTest] \in {"agent", "testing"}
    /\ \E t \in Tasks : task[t] \in {"done", "thrown"}

\* C2 (as claimed): once the queue is idle every one of the K runs has
\* recorded its outcome in the scores collection, exactly once each,
\* whatever the result of its Agent call and tests.
C2_AllOutcomesRecorded ==
    (mode = "test" /\ qpc = "done") =>
        /\ Len(scores) = totalTest
        /\ \A t \in Tasks : task[t] = "done"

\* C3: in the full runner an AgentCallError in ConflictTeaching, Generation
\* or Feedback of run r is caught in that phase: run r ends Failed with the
\* error's message, the batch is not aborted by it (only a fatal error
\* aborts), and the loop goes on to start run r + 1; a batch that is done has
\* started every run.
C3_RecoverableFailureIsContained ==
    mode = "full" =>
        /\ \A r \in 1..total : outcome[r].status = "Failed" =>
            /\ outcome[r].error \in AgentCallErrors
            /\ outcome[r].phase \in {"ConflictTeaching", "Generation", "Feedback"}
            /\ aborted.by # r
            /\ (i = r /\ pc = "terminal") \/ i > r
            /\ (r < total /\ i > r) =>
                   \/ outcome[r + 1].status # "Pending"
                   \/ (pc = "loop" /\ i = r + 1)
        /\ InLog("AgentCallError") =>
            /\ pc = "terminal"
            /\ outcome[i].status = "Failed"
        /\ aborted.by # 0 => aborted.error \in FatalErrors
        /\ pc = "done" =>
               \A r \in 1..total : outcome[r].status \in {"Success", "Failed"}

\* run 1 failed in Feedback, run 2 ran and succeeded, the batch ended
C3_Witness ==
    /\ mode = "full" /\ pc = "done"
    /\ outcome[1].status = "Failed" /\ outcome[1].phase = "Feedback"
    /\ outcome[1].error = "Timeout"
    /\ outcome[2].status = "Success"

\* C4: in the full runner a fatal error (a missing required descriptor
\* field, a wrong count of prerequisite documents, an algorithm id not above
\* 100) of run i is never turned into a run failure: the batch aborts at
\* once, nothing can execute any more, the later runs are never started and
\* the collection holds only what the runs up to i recorded.
C4_FatalAbortsBatch ==
    mode = "full" =>
        /\ (run # NoRun /\ FatalOnPath) => (pc = "aborted" /\ aborted.by = i)
        /\ \A r \in 1..total :
               outcome[r].status \in {"Success", "Failed"} =>
                   outcome[r].error \notin FatalErrors
        /\ aborted.by # 0 =>
            /\ pc = "aborted" /\ aborted.by = i
            /\ aborted.error \in FatalErrors
            /\ outcome[i].status = "Aborted"
            /\ \A r \in 1..total : r > i => outcome[r] = Pending
            /\ \A r \in 1..total : r < i => outcome[r].status \in {"Success", "Failed"}
            /\ \A k \in 1..Len(testResults) : testResults[k].idx <= i
            /\ finalScore = "none"
            /\ ~ENABLED Next

\* run 2 aborted the batch on a corpus error; the score of run 1 is kept
C4_Witness ==
    /\ mode = "full"
    /\ aborted.by = 2 /\ aborted.error = "Expected exactly one file"
    /\ Len(testResults) = 1 /\ testResults[1].idx = 1

\* C5 (as claimed): a run that ends Failed has no score entry in the
\* collection.
C5_FailedRunHasNoScore ==
    mode = "full" =>
        \A r \in 1..total : outcome[r].status = "Failed" => Entries(r) = {}

\* C5 (amended): a run has at most one score entry, and it has one only
\* once its ConflictTeaching and Generation signaled no recoverable error
\* and its tests ran; a Failed run has a score entry exactly when it failed
\* in Feedback, after its score was pushed.
C5_ScoreOnlyPastGeneration ==
    mode = "full" =>
        \A r \in 1..total :
            /\ Cardinality(Entries(r)) <= 1
            /\ outcome[r].status = "Failed" =>
                   (Entries(r) # {} <=> outcome[r].phase = "Feedback")
            /\ Entries(r) # {} => outcome[r].phase \in {"Testing", "Feedback"}

\* run 1 failed in Feedback and its score is in the collection
C5_Witness ==
    /\ mode = "full"
    /\ outcome[1].status = "Failed" /\ outcome[1].phase = "Feedback"
    /\ Entries(1) # {}

\* C6: the events of a run occur in the order of the Run State Machine:
\* Init first, every phase at most once and after the earlier ones, a phase
\* entered only when the phase before it has ended, Terminal last and
\* nothing after it.
C6_PhasesStrictlyOrdered ==
    mode = "full" =>
        /\ \A k \in 2..Len(log) : Rank(log[k - 1]) < Rank(log[k])
        /\ log # <<>> => log[1] = "Init"
        /\ \A k \in 2..Len(log) :
               log[k] \in PhaseNames \ {"Terminal"} =>
                   log[k - 1] \in PhaseEnds \cup {"Init"}
        /\ pc = "terminal" <=> InLog("Terminal")
        /\ InLog("Terminal") => log[Len(log)] = "Terminal"

\* a run went through every phase
C6_Witness ==
    /\ mode = "full" /\ pc = "terminal"
    /\ InLog("ConflictTeaching/") /\ InLog("Testing/") /\ InLog("Feedback/")

\* C7: ConflictTeaching is entered exactly by the runs whose descriptor is
\* conflicting and not a post-feedback retry; when it was entered it has
\* ended before the Generation call is sent, and a post-feedback retry
\* never enters it nor sends teaching text.
C7_ConflictTeachingGuard ==
    (mode = "full" /\ run # NoRun) =>
        /\ InLog("ConflictTeaching") <=> (run.isConflicted /\ ~run.isAfterFeedback)
        /\ (InLog("ConflictTeaching") /\ InLog("call:primary")) =>
               /\ InLog("ConflictTeaching/")
               /\ Pos("call:conflict") < Pos("ConflictTeaching/")
               /\ Pos("ConflictTeaching/") < Pos("call:primary")
        /\ run.isAfterFeedback =>
               (~InLog("ConflictTeaching") /\ ~InLog("call:conflict"))

\* a conflicting first attempt of algorithm 150 was taught and then prompted
C7_Witness ==
    /\ mode = "full" /\ run # NoRun
    /\ run.isConflicted /\ ~run.isAfterFeedback /\ run.number = 150
    /\ InLog("ConflictTeaching/") /\ InLog("call:primary")

\* C8: Feedback is entered exactly when the run's score was computed and
\* is strictly below 1, feedback is not disabled and the run is not a
\* post-feedback retry; the Feedback collaborator and the feedback Agent
\* call happen only inside it, so never for a score of exactly 1.
C8_FeedbackGuard ==
    (mode = "full" /\ run # NoRun) =>
        /\ InLog("Feedback") <=>
               /\ ~conf.disableFeedback
               /\ ~run.isAfterFeedback
               /\ \E k \in Entries(i) :
                      /\ testResults[k].score # NaN
                      /\ testResults[k].score[1] < testResults[k].score[2]
        /\ (InLog("mentor") \/ InLog("call:feedback")) => InLog("Feedback")
        /\ (\E k \in Entries(i) : testResults[k].score = <<1, 1>>) =>
               (~InLog("Feedback") /\ ~InLog("mentor") /\ ~InLog("call:feedback"))

\* a first attempt that scored 1/2 got its feedback delivered
C8_Witness ==
    /\ mode = "full" /\ run # NoRun
    /\ \E k \in Entries(i) : testResults[k].score = <<1, 2>>
    /\ InLog("call:feedback")

\* C9: an entry of the collection is never modified nor removed: every
\* step leaves the recorded entries as they are and at most appends one.
C9_ScoreNeverChanges ==
    [][/\ Len(testResults') >= Len(testResults)
       /\ \A k \in 1..Len(testResults) : testResults'[k] = testResults[k]]_vars

\* a run whose feedback was delivered, with its score in the collection
C9_Witness ==
    /\ mode = "full" /\ pc = "terminal"
    /\ InLog("Feedback/")
    /\ Entries(i) # {}

\* C10 (as claimed), on conf.ts as it is in the repository: an implement
\* descriptor with every field present that is not a post-feedback retry
\* and scored 1/2 has, once its run is over, exactly one Feedback-phase
\* Agent call, sent after the mentoring text came back, and its score is
\* still 1/2.
C10_ExactlyOneFeedbackCall ==
    (/\ mode = "full" /\ conf = ShippedConf
     /\ run \in ValidDescriptors
     /\ run.type = "implement" /\ ~run.isAfterFeedback
     /\ \E k \in Entries(i) : testResults[k].score = <<1, 2>>
     /\ pc \in {"terminal", "aborted"}) =>
        /\ Count("call:feedback") = 1
        /\ InLog("mentor/") /\ Pos("mentor/") < Pos("call:feedback")
        /\ \A k \in Entries(i) : testResults[k].score = <<1, 2>>

----------------------------------------------------------------------------
(* C11..C20 *)

\* C12 (as claimed): every score recorded for a run is a number P/N of the
\* interval [0, 1], a run without test cases is recorded with the score 0,
\* and the batch mean printed at the end is a number: not-a-number is
\* neither recorded nor propagated into the mean.
C12_ScoreIsNeverNaN ==
    mode = "full" =>
        /\ \A k \in 1..Len(testResults) :
               /\ testResults[k].score # NaN
               /\ testResults[k].score[1] <= testResults[k].score[2]
        /\ (run # NoRun /\ run.testCases = 0) =>
               \A k \in Entries(i) : testResults[k].score = <<0, 1>>
        /\ pc = "done" => finalScore # NaN

\* C19 (as claimed): a run that ends Success has its score in the
\* collection; when that score is exactly 0 its run-level span has ended
\* with the status ERROR 'Score is 0', and when the score is above 0 the
\* span has ended with the status OK.
C19_ScoreZeroEndsWithErrorStatus ==
    mode = "full" =>
        \A r \in 1..total : outcome[r].status = "Success" =>
            /\ Entries(r) # {}
            /\ \A k \in Entries(r) :
                   /\ IsZero(testResults[k].score) =>
                          spanStatus[r] = Error("Score is 0")
                   /\ (testResults[k].score # NaN /\ testResults[k].score[1] > 0) =>
                          spanStatus[r] = Ok

\* the precondition of ConflictTeaching that descriptor d violates first,
\* in the order learnConflictingAlgorithm checks them
TeachingViolation(d) ==
    IF d.number <= 100 THEN "Conflicting algorithm must have number > 100"
    ELSE IF ~d.uuidConflictingDocs THEN "Missing uuidConflictingDocs"
    ELSE IF d.docFiles # 1 THEN "Expected exactly one file"
    ELSE NoError

\* C16: when a run has entered ConflictTeaching and its algorithm number
\* is not above 100, its conflicting-docs correlation id is absent, or the
\* prerequisite files with its zero-padded number are not exactly one, the
\* batch is aborted by that run with the error of the violated
\* precondition: the run is not marked Failed, no teaching text was sent to
\* the Agent, the run went no further, and every later run stays unstarted.
C16_TeachingPreconditionAbortsBatch ==
    (mode = "full" /\ run # NoRun /\ InLog("ConflictTeaching")
     /\ TeachingViolation(run) # NoError) =>
        /\ pc = "aborted"
        /\ aborted = [by |-> i, error |-> TeachingViolation(run)]
        /\ outcome[i].status = "Aborted"
        /\ ~InLog("call:conflict") /\ ~InLog("AgentCallError")
        /\ log = <<"Init", "ConflictTeaching">>
        /\ \A r \in 1..total : r > i => outcome[r] = Pending
        /\ finalScore = "none"

\* run 1 found two prerequisite files: the batch is aborted, run 2 never
\* starts
C16_Witness ==
    /\ mode = "full" /\ run # NoRun /\ i = 1
    /\ run.docFiles = 2 /\ run.number > 100 /\ run.uuidConflictingDocs
    /\ InLog("ConflictTeaching")
    /\ aborted = [by |-> 1, error |-> "Expected exactly one file"]
    /\ outcome[2] = Pending

\* C17: when the Agent answered a run whose descriptor has no test-case
\* text, the run aborts the batch with the TypeError of reading the missing
\* text: the run is not marked Failed (nor Success), the interpreter is
\* never awaited for it, the Testing phase does not end, and no score entry
\* exists for the run.
C17_MissingTestCasesIsFatal ==
    (mode = "full" /\ run # NoRun /\ run.testCases = Missing) =>
        /\ pc # "test_wait"
        /\ ~InLog("Testing/")
        /\ Entries(i) = {}
        /\ InLog("Extraction/") =>
               /\ pc = "aborted"
               /\ aborted = [by |-> i, error |-> "TypeError: testCases"]
               /\ outcome[i].status = "Aborted"
               /\ log[Len(log)] = "Testing"

\* the Agent answered run 2, whose test-case text is missing: the batch
\* is aborted and only run 1 has a score
C17_Witness ==
    /\ mode = "full" /\ run # NoRun /\ i = 2
    /\ run.testCases = Missing
    /\ InLog("call:primary") /\ InLog("Extraction/")
    /\ aborted = [by |-> 2, error |-> "TypeError: testCases"]
    /\ Entries(1) # {} /\ Entries(2) = {}

\* the precondition of Feedback that descriptor d violates first, in the
\* order deliverFeedback checks them
FeedbackViolation(d) ==
    IF ~d.algorithmPlain THEN "Missing algorithmPlain"
    ELSE IF ~d.idealMavkaCode THEN "Missing idealMavkaCode"
    ELSE IF ~d.uuidFeedback THEN "Missing uuidFeedback"
    ELSE NoError

\* C18: when a run has entered Feedback and its private algorithm
\* statement, its reference implementation or its feedback correlation id
\* is absent, the batch is aborted by that run with the error of the absent
\* field: the run is not marked Failed, the feedback collaborator was not
\* asked, no feedback message was sent to the Agent, and the later runs
\* stay unstarted.
C18_FeedbackPreconditionAbortsBatch ==
    (mode = "full" /\ run # NoRun /\ InLog("Feedback")
     /\ FeedbackViolation(run) # NoError) =>
        /\ pc = "aborted"
        /\ aborted = [by |-> i, error |-> FeedbackViolation(run)]
        /\ outcome[i].status = "Aborted"
        /\ ~InLog("mentor") /\ ~InLog("call:feedback")
        /\ log[Len(log)] = "Feedback"
        /\ \A r \in 1..total : r > i => outcome[r] = Pending
        /\ finalScore = "none"

\* run 1 scored below 1 and has no feedback correlation id: the batch is
\* aborted in Feedback, run 2 never starts
C18_Witness ==
    /\ mode = "full" /\ run # NoRun /\ i = 1
    /\ run.algorithmPlain /\ run.idealMavkaCode /\ ~run.uuidFeedback
    /\ InLog("Feedback")
    /\ aborted = [by |-> 1, error |-> "Missing uuidFeedback"]
    /\ outcome[2] = Pending

\* The full runner with the progress its code guarantees.  The Agent call
\* is ended by its AbortController timer after agentTimeoutMs, and the chat
\* model of the feedback collaborator by its own timeout, so their awaits
\* always settle; the interpreter subprocess is awaited without any timer,
\* so nothing makes TestReturn or TestThrows happen.
SpecLive ==
    /\ Init /\ [][Next]_vars
    /\ WF_vars(StartRun)
    /\ WF_vars(TeachReturn)
    /\ WF_vars(AgentReturn)
    /\ WF_vars(MentorReturn)
    /\ WF_vars(FeedbackReturn)
    /\ WF_vars(EndRun)
    /\ WF_vars(Finish)

\* C13 (as claimed): every run that was started eventually reaches a
\* Terminal state (Success or Failed), or the batch is aborted by a fatal
\* error; no run stays suspended for ever.
C13_EveryStartedRunTerminates ==
    \A r \in 1..total :
        (mode = "full" /\ outcome[r].status = "Running")
            ~> (outcome[r].status \in {"Success", "Failed", "Aborted"})

\* C20: a callAgent invocation that has settled either returned or threw.
\* Whatever it threw is an AgentCallError: 'HTTP error' for a status
\* outside 200..299, 'Timeout' when the timer aborted the call (never before
\* agentTimeoutMs have passed), 'Agent call failed' for a transport error, a
\* body that is no JSON or a body that does not match the expected shape.
\* It returned exactly when the status was 2xx and the body matched, and
\* then the result is the validated body (known keys only) with ms = the
\* time from the start of the call to its return.  The outcome is the one
\* the runners take callAgent to have.
C20_CallFailuresAreAgentCallErrors ==
    (mode = "call" /\ call.pc = "done") =>
        LET r == call.result IN
        /\ r.kind \in {"returned", "thrown"}
        /\ call.timer = "cleared"
        /\ r.kind = "thrown" =>
            /\ r.class = "AgentCallError"
            /\ IsAgentCallError(r.message)
            /\ r.message = callAgent(call.cause).error
            /\ call.cause = "status" => (r.message = "HTTP error" /\ ~IsOk(call.status))
            /\ call.cause = "abort" =>
                   (r.message = "Timeout" /\ call.now - call.start >= agentTimeoutMs)
            /\ call.cause \in {"network", "syntax", "shape"} =>
                   r.message = "Agent call failed"
        /\ r.kind = "returned" <=> call.cause = "ok"
        /\ r.kind = "returned" <=> callAgent(call.cause).ok
        /\ r.kind = "returned" =>
            /\ IsOk(call.status)
            /\ call.body.json /\ MatchesShape(call.body)
            /\ r.json = Validated(call.body)
            /\ r.ms = call.now - call.start
            /\ r.ms >= 0

\* a 2xx answer whose body has no response text, after some time: the call
\* threw 'Agent call failed'
C20_Witness ==
    /\ mode = "call" /\ call.pc = "done"
    /\ call.status = 200 /\ call.body.json /\ call.body.response = "absent"
    /\ call.now > call.start
    /\ call.result = Thrown("AgentCallError", "Agent call failed")

\* C11 (as claimed): the Test Result of a test case is passed exactly when
\* the interpreter's stderr is empty and its normalized stdout equals the
\* expected text; whenever stderr is not empty the result is failed and its
\* actual output is 'ERROR: ' followed by stderr.
C11_PassedIffNoStderrAndEqual ==
    mode = "adapter" =>
        \A e \in Invocations :
            exec[e].last # NoTestResult =>
                LET r == exec[e].last IN
                /\ r.passed <=>
                       (r.stderr = <<>> /\ Normalize(r.stdout) = r.expected)
                /\ r.stderr # <<>> =>
                       (~r.passed /\ r.actual = <<"ERROR: ">> \o r.stderr)

\* the temp files in the folder that invocation e wrote
FilesOf(e) == {f \in TempFiles : tmp[f].by = e}

\* invocation e is between two test cases, or has returned or thrown
Outside(e) == exec[e].pc \in {"next", "returned", "thrown"}

\* C14 (as claimed): once testMavkaCode has returned or thrown, and between
\* two of its test cases, none of the temp files it wrote remains in the
\* folder.
C14_NoTempFileRemains ==
    mode = "adapter" =>
        \A e \in Invocations : Outside(e) => FilesOf(e) = {}

\* C14 (what does hold): outside a test case the only temp files of an
\* invocation that remain are files left behind by an unlink that failed
\* (its error is ignored) or by a write that was rejected after creating
\* the file (the write is outside the try block): every file whose test
\* case went through the try block, whether it gave a result or threw, had
\* its deletion attempted.  A failed deletion never propagates: the
\* invocation throws only when the write, the spawn or the read threw, and
\* goes on to the next test case or returns otherwise.
C14_TempFileRemainsOnlyIfLeftBehind ==
    mode = "adapter" =>
        \A e \in Invocations :
            /\ Outside(e) => \A f \in FilesOf(e) : tmp[f].left
            /\ exec[e].pc = "thrown" => exec[e].how = "throw"
            /\ exec[e].pc = "returned" =>
                   (exec[e].how = "result" /\ exec[e].case = exec[e].n)
            /\ (exec[e].pc = "next" /\ exec[e].case > 1) => exec[e].how = "result"
            /\ exec[e].pc \in {"spawn", "started", "running", "cleanup"} =>
                   exec[e].name \in TempFiles

\* invocation 1 threw in its second test case and none of its files
\* remains; invocation 2 returned although a deletion failed, and its file
\* is left behind
C14_Witness ==
    /\ mode = "adapter"
    /\ exec[1].pc = "thrown" /\ exec[1].case = 2 /\ FilesOf(1) = {}
    /\ exec[2].pc = "returned"
    /\ \E f \in FilesOf(2) : tmp[f].left

\* invocation e has written the temp file of a test case and has not yet
\* passed its finally block
Executing(e) == exec[e].pc \in {"spawn", "started", "running", "cleanup"}

\* C15 (as claimed): two test-case executions that overlap in time never
\* use the same temp file name, and the program an interpreter loads is the
\* one its own execution wrote: it was neither overwritten nor deleted by
\* another execution.
C15_ExecutionsAreIsolated ==
    mode = "adapter" =>
        /\ \A a, b \in Invocations :
               (a # b /\ Executing(a) /\ Executing(b)) =>
                   exec[a].name # exec[b].name
        /\ \A e \in Invocations :
               exec[e].pc \in {"running", "cleanup"} /\ exec[e].read # -1 =>
                   exec[e].read = e

----------------------------------------------------------------------------
(* The Generation prompt of the two runners. A prompt is the sequence of  *)
(* its pieces: the fixed text of the template and the values put into it. *)

\* the texts a descriptor of 2_runs.json may hold in its fields; a review
\* descriptor may lack its code to review
AlgorithmNames == {"name:bubble sort", "name:binary search"}
CodesToReview == {"", "review:code"}
AlgorithmPlains == {"plain:statement A", "plain:statement B"}
IdealMavkaCodes == {"ideal:reference A", "ideal:reference B"}
TestCasesTexts == {"tests:1 -> 1", "tests:2 -> 4"}

PromptRuns ==
    [type : {"implement", "review"}, name : AlgorithmNames,
     mavkaCodeToReview : CodesToReview, algorithmPlain : AlgorithmPlains,
     idealMavkaCode : IdealMavkaCodes, testCases : TestCasesTexts]

\* function constructPrompt(run: Run): string
constructPrompt(r) ==
    IF r.type = "implement"
    THEN [threw |-> FALSE,
          text |-> <<"implement: write Mavka code that implements ", r.name,
                     ". The answer must be one message in the format ...">>]
    ELSE IF r.mavkaCodeToReview = ""
    THEN [threw |-> TRUE, text |-> <<"Missing mavkaCodeToReview for review run">>]
    ELSE [threw |-> FALSE,
          text |-> <<"review: look through the candidate implementation of ", r.name,
                     " ... The code that should implement it: ",
                     r.mavkaCodeToReview,
                     " Your task: fix any errors ... in the format ...">>]

\* const prompt = `...\n\n${run.private.algorithmPlain}\n\n\n\n...`
TestPrompt(r) ==
    [threw |-> FALSE,
     text |-> <<"implement the algorithm below in Mavka: ", r.algorithmPlain,
                " The answer must be one message in the format ...">>]

\* the prompt of the Generation task in the runner named
PromptOf(runner, r) ==
    IF runner = "full" THEN constructPrompt(r) ELSE TestPrompt(r)

\* two descriptors that differ at most in their private fields
SamePublic(r1, r2) ==
    /\ r1.type = r2.type
    /\ r1.name = r2.name
    /\ r1.mavkaCodeToReview = r2.mavkaCodeToReview

\* the runner builds the prompts of the two descriptors
BuildPrompts ==
    /\ mode = "prompt" /\ ~res.done
    /\ res' = [done |-> TRUE, first |-> PromptOf(arg.runner, arg.first),
               second |-> PromptOf(arg.runner, arg.second)]
    /\ UNCHANGED <<mode, conf, learnVars, fullVars, testVars, unitVars, arg>>

InitPrompt ==
    /\ mode = "prompt"
    /\ conf = ShippedConf
    /\ InitFullVars
    /\ InitLearnVars
    /\ InitTestVars
    /\ InitUnitVars
    /\ arg \in {a \in [runner : {"full", "test"}, first : PromptRuns,
                       second : PromptRuns] : SamePublic(a.first, a.second)}
    /\ res = NotCalled

NextPrompt == BuildPrompts

SpecPrompt == InitPrompt /\ [][NextPrompt]_vars

----------------------------------------------------------------------------
(* One run of each runner as a function of its descriptor, conf.ts and    *)
(* what its collaborators answer: the log of the run when it ends.        *)

\* what the collaborators of one run answer: the Agent to the teaching,
\* primary and feedback calls, the interpreter (the number of test cases
\* that pass, or testMavkaCode throws), and whether a feedback model fails
Behaviours ==
    [teach : {"ok", "abort"}, gen : AgentReplies,
     passed : 0..MaxTests, testThrows : BOOLEAN,
     mentorFails : BOOLEAN, fb : {"ok", "status"}]

\* the result of generateFeedback under behaviour b
MentorResult(c, b) ==
    IF NoError \in generateFeedback(c) /\ ~b.mentorFails THEN NoError
    ELSE CHOOSE e \in generateFeedback(c) : e # NoError

\* the number of test cases of d that pass under behaviour b
PassedOf(d, b) == IF b.passed <= d.testCases THEN b.passed ELSE d.testCases

\* the run of the full runner goes on from the await it is suspended at
ResumeFull(s, d, c, b) ==
    CASE s.pc = "teach_wait" ->
            IF callAgent(b.teach).ok
            THEN Close("Learning Conflicting Algorithm",
                       PushLearn(BeginGeneration(d,
                                                 s.log \o <<"ConflictTeaching/">>)))
            ELSE Catch(callAgent(b.teach).error, s.log \o <<"AgentCallError">>)
      [] s.pc = "gen_wait" ->
            IF callAgent(b.gen).ok THEN BeginTesting(d, s.log)
            ELSE Catch(callAgent(b.gen).error, s.log \o <<"AgentCallError">>)
      [] s.pc = "test_wait" ->
            IF b.testThrows THEN Catch("interpreter error", s.log)
            ELSE PushTask(AfterTesting(c, d, Score(PassedOf(d, b), d.testCases),
                                       s.log))
      [] s.pc = "mentor_wait" ->
            IF MentorResult(c, b) = NoError
            THEN Call("feedbackMsg", Uid(d, "uuidFeedback"),
                      Await("fb_wait", s.log \o <<"mentor/", "call:feedback">>))
            ELSE Catch(MentorResult(c, b), s.log)
      [] s.pc = "fb_wait" ->
            IF callAgent(b.fb).ok
            THEN PushLearn(Return("Success", NoError, s.log \o <<"Feedback/">>))
            ELSE Catch(callAgent(b.fb).error, s.log \o <<"AgentCallError">>)

RECURSIVE RunToEnd(_, _, _, _)
\* the body of the run-level withSpan of the full runner, to its end
RunToEnd(s, d, c, b) ==
    IF s.pc \in {"terminal", "aborted"} THEN s
    ELSE RunToEnd(ResumeFull(s, d, c, b), d, c, b)

\* one run of the full runner
FullRun(d, c, b) ==
    RunToEnd(IF NeedsTeaching(d) THEN BeginTeaching(d, <<"Init">>)
             ELSE BeginGeneration(d, <<"Init">>), d, c, b)

\* one run of the test runner: the task of queue.add. Every catch block
\* rethrows, so an error ends the task where it is thrown
TestRun(d, b) ==
    LET lg1 == <<"Init", "Generation", "call:primary">>
        lg2 == lg1 \o <<"Extraction", "Extraction/", "Testing">>
    IN
    IF ~callAgent(b.gen).ok
    THEN Throw(callAgent(b.gen).error, lg1 \o <<"AgentCallError">>)
    ELSE IF d.testCases = Missing
    THEN Throw("TypeError: testCases", lg2)
    ELSE IF b.testThrows
    THEN Throw("interpreter error", lg2)
    ELSE Return("Success", NoError, lg2 \o <<"Testing/", "Generation/">>)

\* both runners run the descriptor
RunBoth ==
    /\ mode = "modes" /\ ~res.done
    /\ res' = [done |-> TRUE,
               sequential |-> FullRun(arg.d, arg.conf, arg.b),
               concurrent |-> TestRun(arg.d, arg.b)]
    /\ UNCHANGED <<mode, conf, learnVars, fullVars, testVars, unitVars, arg>>

InitModes ==
    /\ mode = "modes"
    /\ conf = ShippedConf
    /\ InitFullVars
    /\ InitLearnVars
    /\ InitTestVars
    /\ InitUnitVars
    /\ arg \in [d : Descriptors, conf : Confs, b : Behaviours]
    /\ res = NotCalled

NextModes == RunBoth

SpecModes == InitModes /\ [][NextModes]_vars

----------------------------------------------------------------------------
(* The Test Case Codec: parseTestsPlain and parseInput. A text is the     *)
(* sequence of its characters; "->" stands for the two characters of the  *)
(* separator, "sp" for a blank, "nl" for a line feed, "a" for a character *)
(* that is none of the others.                                            *)

MaxTextLen == 5
MaxExprLen == 5

\* the sequences of at most n elements of S
SeqsUpTo(S, n) == UNION {[1..k -> S] : k \in 0..n}

DigitChars == {"0", "1", "2", "3", "4", "5", "6", "7", "8", "9"}

\* the value of a digit
DigitValue(c) ==
    CASE c = "0" -> 0 [] c = "1" -> 1 [] c = "2" -> 2 [] c = "3" -> 3
      [] c = "4" -> 4 [] c = "5" -> 5 [] c = "6" -> 6 [] c = "7" -> 7
      [] c = "8" -> 8 [] c = "9" -> 9

RECURSIVE LeadingDigits(_)
\* the digits a text starts with
LeadingDigits(s) ==
    IF s # <<>> /\ Head(s) \in DigitChars
    THEN <<Head(s)>> \o LeadingDigits(Tail(s))
    ELSE <<>>

RECURSIVE DecimalValue(_)
\* the number a sequence of digits writes
DecimalValue(ds) ==
    IF ds = <<>> THEN 0
    ELSE 10 * DecimalValue(SubSeq(ds, 1, Len(ds) - 1)) + DigitValue(ds[Len(ds)])

\* the decoded values: a number, a string, a list of numbers and strings
Num(n) == [kind |-> "number", value |-> n]
Str(s) == [kind |-> "string", value |-> s]
List(xs) == [kind |-> "list", value |-> xs]

\* const n = parseFloat(p); return Number.isNaN(n) ? p : n, for p trimmed.
\* parseFloat skips leading white space and reads the longest number the
\* text starts with (of the characters here, a run of digits)
Scalar(p) ==
    LET ds == LeadingDigits(TrimStart(p)) IN
    IF ds = <<>> THEN Str(p) ELSE Num(DecimalValue(ds))

RECURSIVE Split(_, _)
\* s.split(c)
Split(s, c) ==
    IF \A k \in 1..Len(s) : s[k] # c THEN <<s>>
    ELSE LET k == CHOOSE j \in 1..Len(s) :
                      s[j] = c /\ \A h \in 1..(j - 1) : s[h] # c
         IN <<SubSeq(s, 1, k - 1)>> \o Split(SubSeq(s, k + 1, Len(s)), c)

\* xs.map(f)
Map(xs, f(_)) == [k \in 1..Len(xs) |-> f(xs[k])]

\* .split(',').map((s) => { const n = parseFloat(s.trim()); return
\* Number.isNaN(n) ? s.trim() : n })
Scalars(s) == Map(Split(s, ","), LAMBDA x : Scalar(Trim(x)))

\* p.startsWith('[') && p.endsWith(']')
IsBracketed(p) == p # <<>> /\ Head(p) = "[" /\ p[Len(p)] = "]"

\* const inner = p.slice(1, -1).trim(); if (!inner) return [];
\* return inner.split(',').map(...)
ListOf(p) ==
    LET inner == Trim(SubSeq(p, 2, Len(p) - 1)) IN
    IF inner = <<>> THEN List(<<>>) ELSE List(Scalars(inner))

\* the first index from k on whose character is not white space (one past
\* the end when there is none)
SkipSpaces(s, k) ==
    IF \E j \in k..Len(s) : s[j] \notin WhiteSpace
    THEN CHOOSE j \in k..Len(s) :
             s[j] \notin WhiteSpace /\ \A h \in k..(j - 1) : s[h] \in WhiteSpace
    ELSE Len(s) + 1

\* the text a final (.+) captures after a greedy \s* from index k on: the
\* rest without its leading white space, or its last character when the
\* rest is white space only
RestAfterSpaces(s, k) ==
    IF SkipSpaces(s, k) <= Len(s) THEN SubSeq(s, SkipSpaces(s, k), Len(s))
    ELSE SubSeq(s, Len(s), Len(s))

\* input.match(/^(.+?),\s*(\[.+\])$/): the two groups, or <<>>
MatchValueArray(s) ==
    LET Fits(l) ==
            /\ l + 1 <= Len(s) /\ s[l + 1] = ","
            /\ LET q == SkipSpaces(s, l + 2) IN
               q + 2 <= Len(s) /\ s[q] = "[" /\ s[Len(s)] = "]"
        ls == {l \in 1..Len(s) : Fits(l)}
    IN IF ls = {} THEN <<>>
       ELSE LET l == CHOOSE x \in ls : \A y \in ls : x <= y IN
            <<SubSeq(s, 1, l), SubSeq(s, SkipSpaces(s, l + 2), Len(s))>>

\* input.match(/^(\[.+\]),\s*(.+)$/): the two groups, or <<>>
MatchArrayValue(s) ==
    LET Fits(r) ==
            /\ r >= 3 /\ s[1] = "[" /\ s[r] = "]"
            /\ r + 2 <= Len(s) /\ s[r + 1] = ","
        rs == {r \in 1..Len(s) : Fits(r)}
    IN IF rs = {} THEN <<>>
       ELSE LET r == CHOOSE x \in rs : \A y \in rs : x >= y IN
            <<SubSeq(s, 1, r), RestAfterSpaces(s, r + 2)>>

\* mutant: the comma split is tried before the list
parseInputSplitFirst(input) ==
    IF \E k \in 1..Len(input) : input[k] = "," THEN Scalars(input)
    ELSE IF IsBracketed(input) THEN <<ListOf(input)>>
    ELSE <<Scalar(input)>>

\* function parseInput(input: string): unknown[]
parseInput(input) ==
    IF IsBracketed(input) THEN <<ListOf(input)>>
    ELSE LET mixedMatch == IF MatchValueArray(input) # <<>>
                           THEN MatchValueArray(input)
                           ELSE MatchArrayValue(input)
         IN
         IF mixedMatch # <<>>
         THEN Map(<<Trim(mixedMatch[1]), Trim(mixedMatch[2])>>,
                  LAMBDA p : IF IsBracketed(p) THEN ListOf(p) ELSE Scalar(p))
         ELSE IF \E k \in 1..Len(input) : input[k] = ","
         THEN Scalars(input)
         ELSE <<Scalar(input)>>

\* line.match(/^(.+?)\s*->\s*(.+)$/): the two groups, or <<>>
MatchLine(line) ==
    LET Fits(l) ==
            LET q == SkipSpaces(line, l + 1) IN
            q < Len(line) /\ line[q] = "->"
        ls == {l \in 1..Len(line) : Fits(l)}
    IN IF ls = {} THEN <<>>
       ELSE LET l == CHOOSE x \in ls : \A y \in ls : x <= y IN
            <<SubSeq(line, 1, l),
              RestAfterSpaces(line, SkipSpaces(line, l + 1) + 1)>>

\* mutant: a line needs only to hold the separator
TestCasesOfAnyArrow(line) ==
    IF Trim(line) = <<>> \/ Head(line) = "#" THEN <<>>
    ELSE IF \A k \in 1..Len(line) : line[k] # "->" THEN <<>>
    ELSE IF MatchLine(line) = <<>>
    THEN <<[input |-> Trim(line), expected |-> <<>>, args |-> <<>>]>>
    ELSE <<[input |-> Trim(MatchLine(line)[1]),
            expected |-> Trim(MatchLine(line)[2]),
            args |-> parseInput(Trim(MatchLine(line)[1]))]>>

\* the body of the loop of parseTestsPlain: the test cases line gives
TestCasesOf(line) ==
    IF Trim(line) = <<>> \/ Head(line) = "#" THEN <<>>
    ELSE IF MatchLine(line) = <<>> THEN <<>>
    ELSE <<[input |-> Trim(MatchLine(line)[1]),
            expected |-> Trim(MatchLine(line)[2]),
            args |-> parseInput(Trim(MatchLine(line)[1]))]>>

RECURSIVE Concat(_)
\* the sequences of ss one after another
Concat(ss) == IF ss = <<>> THEN <<>> ELSE Head(ss) \o Concat(Tail(ss))

\* async function parseTestsPlain(testContent: string): Promise<TestCase[]>
parseTestsPlain(testContent) ==
    Concat(Map(Split(Trim(testContent), "nl"), TestCasesOf))

\* the test-case texts: every text of a few characters, the lines made of
\* an input expression of a few characters, and the two lines of the
\* documentation
TextChars == {"a", "sp", "#", "->", "nl"}
ExprChars == {"[", "]", ",", "sp", "1", "a"}

ExampleLines ==
    {<<"[", "1", ",", "sp", "2", ",", "sp", "3", "]", "sp", "->", "sp", "6">>,
     <<"5", ",", "sp", "1", "0", "sp", "->", "sp", "1", "5">>}

TestContents ==
    SeqsUpTo(TextChars, MaxTextLen)
        \cup {e \o <<"sp", "->", "sp", "1">> : e \in SeqsUpTo(ExprChars, MaxExprLen)}
        \cup ExampleLines

\* parseTestsPlain(testsPlain) returns
Parse ==
    /\ mode = "codec" /\ ~res.done
    /\ res' = [done |-> TRUE, testCases |-> parseTestsPlain(arg)]
    /\ UNCHANGED <<mode, conf, learnVars, fullVars, testVars, unitVars, arg>>

InitCodec ==
    /\ mode = "codec"
    /\ conf = ShippedConf
    /\ InitFullVars
    /\ InitLearnVars
    /\ InitTestVars
    /\ InitUnitVars
    /\ arg \in TestContents
    /\ res = NotCalled

NextCodec == Parse

SpecCodec == InitCodec /\ [][NextCodec]_vars

----------------------------------------------------------------------------
(* Extraction: extractCodeFromLLM. The Agent's response is the sequence   *)
(* of its characters: a backtick "bt", a line feed "nl", a blank "sp", a   *)
(* word character "w", and the "<", "/", ">" of a tag.                    *)

MaxPieces == 6

\* the pieces a response is made of here: a fence of three backticks, one
\* backtick, a word character, a line feed, a blank, the tags <w> and </w>
PieceChars ==
    [fence |-> <<"bt", "bt", "bt">>, tick |-> <<"bt">>, w |-> <<"w">>,
     nl |-> <<"nl">>, sp |-> <<"sp">>, open |-> <<"<", "w", ">">>,
     close |-> <<"<", "/", "w", ">">>]

PieceNames == DOMAIN PieceChars

\* the characters of a response given by its pieces
TextOf(ps) == Concat(Map(ps, LAMBDA p : PieceChars[p]))

\* the responses of the Agent
Responses == SeqsUpTo(PieceNames, MaxPieces)

\* \w of the patterns
WordChars == {"w"}

\* the first index from k on whose character is not in S (one past the end
\* when there is none)
RunEnd(s, k, S) ==
    IF \E j \in k..Len(s) : s[j] \notin S
    THEN CHOOSE j \in k..Len(s) : s[j] \notin S /\ \A h \in k..(j - 1) : s[h] \in S
    ELSE Len(s) + 1

Smallest(S) == CHOOSE x \in S : \A y \in S : x <= y
Largest(S) == CHOOSE x \in S : \A y \in S : x >= y

NoMatch == [found |-> FALSE, group |-> <<>>]
Match(g) == [found |-> TRUE, group |-> g]

\* three backticks from index at on
IsFenceAt(s, at) ==
    at + 2 <= Len(s) /\ s[at] = "bt" /\ s[at + 1] = "bt" /\ s[at + 2] = "bt"

\* /```(?:\w+)?\s*\n([\s\S]*?)\n```/ tried from index at on: after the fence and
\* the word characters, the greedy \s* gives back white space until the
\* line feed after it is followed, somewhere, by a line feed and a fence;
\* the lazy group ends at the first such line feed
FencedAt(s, at) ==
    IF ~IsFenceAt(s, at) THEN NoMatch
    ELSE LET p == RunEnd(s, at + 3, WordChars)
             e == RunEnd(s, p, WhiteSpace)
             Closing(b) ==
                 {c \in (b + 1)..Len(s) : s[c] = "nl" /\ IsFenceAt(s, c + 1)}
             bs == {b \in p..(e - 1) : s[b] = "nl" /\ Closing(b) # {}}
         IN IF bs = {} THEN NoMatch
            ELSE Match(SubSeq(s, Largest(bs) + 1, Smallest(Closing(Largest(bs))) - 1))

\* /<(\w+)>([\s\S]*?)<\/\1>/ tried from index at on: the second group
TagAt(s, at) ==
    IF s[at] # "<" THEN NoMatch
    ELSE LET j == RunEnd(s, at + 1, WordChars)
             name == SubSeq(s, at + 1, j - 1)
             n == Len(name)
             Closes(c) ==
                 /\ c + 2 + n <= Len(s)
                 /\ s[c] = "<" /\ s[c + 1] = "/"
                 /\ SubSeq(s, c + 2, c + 1 + n) = name
                 /\ s[c + 2 + n] = ">"
             cs == {c \in (j + 1)..Len(s) : Closes(c)}
         IN IF n = 0 \/ j > Len(s) THEN NoMatch
            ELSE IF s[j] # ">" \/ cs = {} THEN NoMatch
            ELSE Match(SubSeq(s, j + 1, Smallest(cs) - 1))

\* /`([^`]+)`/ tried from index at on
InlineAt(s, at) ==
    IF s[at] # "bt" THEN NoMatch
    ELSE LET k == RunEnd(s, at + 1, {"nl", "sp", "w", "<", "/", ">"}) IN
         IF k = at + 1 \/ k > Len(s) THEN NoMatch
         ELSE Match(SubSeq(s, at + 1, k - 1))

\* llmOutput.match(pattern): the match at the first index that has one
FirstMatch(s, At(_, _)) ==
    LET starts == {at \in 1..Len(s) : At(s, at).found} IN
    IF starts = {} THEN NoMatch ELSE At(s, Smallest(starts))

\* export function extractCodeFromLLM(llmOutput: string): string; the
\* test if (match?.[1]) fails for no match and for an empty group
extractCodeFromLLM(llmOutput) ==
    LET tripleBacktickMatch == FirstMatch(llmOutput, FencedAt)
        xmlTagMatch == FirstMatch(llmOutput, TagAt)
        singleBacktickMatch == FirstMatch(llmOutput, InlineAt)
    IN
    IF tripleBacktickMatch.group # <<>> THEN Trim(tripleBacktickMatch.group)
    ELSE IF xmlTagMatch.group # <<>> THEN Trim(xmlTagMatch.group)
    ELSE IF singleBacktickMatch.group # <<>> THEN Trim(singleBacktickMatch.group)
    ELSE llmOutput

\* code = extractCodeFromLLM(response)
Extract ==
    /\ mode = "extract" /\ ~res.done
    /\ res' = [done |-> TRUE, code |-> extractCodeFromLLM(TextOf(arg))]
    /\ UNCHANGED <<mode, conf, learnVars, fullVars, testVars, unitVars, arg>>

InitExtract ==
    /\ mode = "extract"
    /\ conf = ShippedConf
    /\ InitFullVars
    /\ InitLearnVars
    /\ InitTestVars
    /\ InitUnitVars
    /\ arg \in Responses
    /\ res = NotCalled

NextExtract == Extract

SpecExtract == InitExtract /\ [][NextExtract]_vars

----------------------------------------------------------------------------
(* Claims C21..C30 *)

\* the runs that have entered a phase and have not reached Terminal
InFlightRuns == {r \in 1..total : outcome[r].status = "Running"}

\* the runs that have reached Terminal
TerminalRuns == {r \in 1..total : outcome[r].status \in {"Success", "Failed"}}

\* C28: in sequential mode runs execute one at a time in descriptor order:
\* a run has entered a phase only if every run before it has reached
\* Terminal, at most one run is in flight at any instant, and the run in
\* flight is the one the loop is at
C28_SequentialOneAtATime ==
    mode = "full" =>
        /\ Cardinality(InFlightRuns) <= 1
        /\ InFlightRuns \subseteq {i}
        /\ \A r \in 1..total :
               outcome[r].status # "Pending" =>
                   \A q \in 1..(r - 1) : q \in TerminalRuns

\* the second run is in one of its phases after the first reached Terminal
C28_Witness ==
    /\ mode = "full"
    /\ outcome[1].status = "Failed"
    /\ outcome[2].status = "Running"
    /\ pc = "test_wait"

\* the test runner's process is over: the summary was printed, or the
\* runtime ended the process
Ended == qpc \in {"done", "crashed"}

SpecBoth == (Init \/ InitTest) /\ [][Next \/ NextTest]_vars

\* the recorded scores of the runner that is running
Recorded ==
    IF mode = "full" THEN [k \in 1..Len(testResults) |-> testResults[k].score]
    ELSE scores

RECURSIVE Denominators(_)
\* the product of the denominators of the fractions of ss
Denominators(ss) ==
    IF ss = <<>> THEN 1 ELSE Head(ss)[2] * Denominators(Tail(ss))

RECURSIVE Numerators(_, _)
\* the sum of the fractions of ss, over the denominator d
Numerators(ss, d) ==
    IF ss = <<>> THEN 0
    ELSE Head(ss)[1] * (d \div Head(ss)[2]) + Numerators(Tail(ss), d)

\* r is the arithmetic mean of the numbers ss (not a number when one of
\* them is not a number)
IsMean(r, ss) ==
    IF \E k \in 1..Len(ss) : ss[k] = NaN THEN r = NaN
    ELSE LET d == Denominators(ss) IN
         /\ r # NaN
         /\ r[1] * (d * Len(ss)) = r[2] * Numerators(ss, d)

\* every run of the batch has finished
AllFinished ==
    IF mode = "full"
    THEN pc = "done" /\ \A r \in 1..total : r \in TerminalRuns
    ELSE qpc = "done" /\ \A t \in Tasks : task[t] \in {"done", "thrown"}

\* no summary has been computed
NoSummary ==
    IF mode = "full" THEN finalScore = "none" /\ title = "none"
    ELSE averageScore = "none"

\* C30 (as stated): the Batch Summary is computed only after the last run
\* has finished, and it is the arithmetic mean of the recorded scores, zero
\* when no outcome was recorded
C30_SummaryIsMeanOrZero ==
    IF ~AllFinished THEN NoSummary
    ELSE \A s \in (IF mode = "full" THEN {finalScore, title} ELSE {averageScore}) :
             IF Recorded = <<>> THEN s = <<0, 1>> ELSE IsMean(s, Recorded)

\* C30 (amended): the Batch Summary is computed only after the last run
\* has finished, and it is the arithmetic mean of the recorded scores; when
\* no outcome was recorded the final score of the sequential runner is
\* zero, and the score in its task title and the average score of the
\* bounded-concurrency runner are not a number
C30_SummaryIsMeanZeroOrNaN ==
    IF ~AllFinished THEN NoSummary
    ELSE IF Recorded = <<>>
    THEN IF mode = "full" THEN finalScore = <<0, 1>> /\ title = NaN
         ELSE averageScore = NaN
    ELSE \A s \in (IF mode = "full" THEN {finalScore, title} ELSE {averageScore}) :
             IsMean(s, Recorded)

\* the bounded-concurrency runner printed the mean of two different scores
C30_Witness ==
    /\ mode = "test" /\ qpc = "done"
    /\ Len(scores) >= 2
    /\ \E k \in 2..Len(scores) : scores[k] # scores[1]
    /\ averageScore \notin {NaN, <<0, 1>>, <<1, 1>>}

\* the texts of the private fields of a descriptor
PrivateTexts(r) == {r.algorithmPlain, r.idealMavkaCode, r.testCases}

\* the pieces of a prompt
Pieces(p) == {p.text[k] : k \in 1..Len(p.text)}

\* C21: the Generation prompt does not depend on private fields: in every
\* scheduling mode two descriptors that differ only in their private
\* algorithm statement, reference implementation or test-case text get the
\* same prompt, and no private field appears in the prompt
C21_PromptIndependentOfPrivate ==
    mode = "prompt" /\ res.done =>
        /\ res.first = res.second
        /\ Pieces(res.first) \cap PrivateTexts(arg.first) = {}
        /\ Pieces(res.second) \cap PrivateTexts(arg.second) = {}

\* C21 (what does hold): the same, of the sequential runner alone
C21_SequentialPromptIndependentOfPrivate ==
    mode = "prompt" /\ res.done /\ arg.runner = "full" =>
        /\ res.first = res.second
        /\ Pieces(res.first) \cap PrivateTexts(arg.first) = {}
        /\ Pieces(res.second) \cap PrivateTexts(arg.second) = {}

\* the entries of a log that are phases or Agent calls
IsPhaseOrCall(e) ==
    e \in PhaseNames \cup {"call:conflict", "call:primary", "call:feedback"}

\* C22: both scheduling disciplines execute the same Run State Machine per
\* descriptor: for every descriptor and every behaviour of the
\* collaborators the sequence of phases and Agent calls of the run in
\* bounded-concurrency mode is the one of the run in sequential mode
C22_SameRunInBothModes ==
    mode = "modes" /\ res.done =>
        SelectSeq(res.concurrent.log, IsPhaseOrCall)
            = SelectSeq(res.sequential.log, IsPhaseOrCall)

\* the number of test cases of invocation e whose result was pushed
Completed(e) ==
    LET x == exec[e] IN
    CASE x.pc \in {"next", "spawn", "running"} -> x.case - 1
      [] x.pc = "cleanup" -> IF x.how = "result" THEN x.case ELSE x.case - 1
      [] x.pc = "returned" -> x.n
      [] OTHER -> Len(x.results)

\* C23: run(code, testCases) returns exactly one Test Result per Test Case,
\* in the order of the test cases, each carrying the input and expected
\* text of its own test case; a failing or erroring test case does not
\* remove, reorder or alter the results of the other test cases
C23_OneResultPerTestCaseInOrder ==
    mode = "adapter" =>
        \A e \in Invocations :
            /\ Len(exec[e].results) = Completed(e)
            /\ \A k \in 1..Len(exec[e].results) : exec[e].results[k].case = k
            /\ exec[e].pc = "returned" => Len(exec[e].results) = exec[e].n

\* the last test case of an invocation wrote to stderr and failed, and its
\* result was pushed after the results of the test cases before it
C23_Witness ==
    /\ mode = "adapter"
    /\ exec[1].pc = "cleanup" /\ exec[1].how = "result"
    /\ exec[1].case = MaxTests
    /\ exec[1].last.stderr # <<>> /\ ~exec[1].last.passed
    /\ Len(exec[1].results) = MaxTests

\* the lines of a test-case text, the text as a whole being trimmed first
LinesOf(text) == Split(Trim(text), "nl")

IsBlank(line) == \A k \in 1..Len(line) : line[k] \in WhiteSpace
IsComment(line) == line # <<>> /\ line[1] = "#"
HasArrow(line) == \E k \in 1..Len(line) : line[k] = "->"

\* the line holds a separator with a character before it and one after it
IsSeparable(line) == \E k \in 2..(Len(line) - 1) : line[k] = "->"

\* the first separator of a line that has a character before it
Separator(line) ==
    CHOOSE k \in 2..Len(line) :
        line[k] = "->" /\ \A j \in 2..(k - 1) : line[j] # "->"

ElementOf(p) ==
    IF TrimStart(p) # <<>> /\ Head(TrimStart(p)) \in DigitChars
    THEN Num(DecimalValue(LeadingDigits(TrimStart(p))))
    ELSE Str(p)

\* the elements of a text, which commas separate
ElementsOf(s) ==
    [k \in 1..Len(Split(s, ",")) |-> ElementOf(Trim(Split(s, ",")[k]))]

\* the expression has the form 'value, [array]'
IsValueArray(s) ==
    /\ s # <<>> /\ s[Len(s)] = "]"
    /\ \E c \in 2..Len(s) :
          /\ s[c] = ","
          /\ SkipSpaces(s, c + 1) + 2 <= Len(s)
          /\ s[SkipSpaces(s, c + 1)] = "["

\* the expression has the form '[array], value'
IsArrayValue(s) ==
    /\ s # <<>> /\ s[1] = "["
    /\ \E r \in 3..(Len(s) - 2) : s[r] = "]" /\ s[r + 1] = ","

\* C25: the input expression of a test line is decoded by fixed
\* precedence: a bracket-delimited input becomes a single list argument;
\* else 'value, [array]' or '[array], value' becomes exactly two arguments,
\* a scalar and a list in that order; else an input with a comma becomes
\* one scalar argument per comma-separated part; else one scalar argument;
\* every element is a number when it parses as one and the raw trimmed
\* string otherwise. '[1, 2, 3] -> 6' yields one argument, the list
\* [1, 2, 3], with expected text '6', and '5, 10 -> 15' yields the two
\* numbers 5 and 10
C25_InputDecodedByPrecedence ==
    mode = "codec" /\ res.done =>
        /\ \A k \in 1..Len(res.testCases) :
               LET s == res.testCases[k].input
                   a == res.testCases[k].args
               IN
               IF IsBracketed(s)
               THEN LET inner == Trim(SubSeq(s, 2, Len(s) - 1)) IN
                    /\ Len(a) = 1 /\ a[1].kind = "list"
                    /\ a[1].value = IF inner = <<>> THEN <<>> ELSE ElementsOf(inner)
               ELSE IF IsValueArray(s)
               THEN Len(a) = 2 /\ a[1].kind # "list" /\ a[2].kind = "list"
               ELSE IF IsArrayValue(s)
               THEN Len(a) = 2 /\ a[1].kind = "list" /\ a[2].kind # "list"
               ELSE IF \E c \in 1..Len(s) : s[c] = ","
               THEN a = ElementsOf(s) /\ \A j \in 1..Len(a) : a[j].kind # "list"
               ELSE a = <<ElementOf(s)>>
        /\ arg = <<"[", "1", ",", "sp", "2", ",", "sp", "3", "]", "sp", "->", "sp", "6">> =>
               res.testCases =
                   <<[input |-> <<"[", "1", ",", "sp", "2", ",", "sp", "3", "]">>,
                      expected |-> <<"6">>,
                      args |-> <<List(<<Num(1), Num(2), Num(3)>>)>>]>>
        /\ arg = <<"5", ",", "sp", "1", "0", "sp", "->", "sp", "1", "5">> =>
               /\ Len(res.testCases) = 1
               /\ res.testCases[1].args = <<Num(5), Num(10)>>

\* the line '[1, 2, 3] -> 6' was parsed into a test case of one list
C25_Witness ==
    /\ mode = "codec" /\ res.done
    /\ arg = <<"[", "1", ",", "sp", "2", ",", "sp", "3", "]", "sp", "->", "sp", "6">>
    /\ Len(res.testCases) = 1
    /\ res.testCases[1].args[1].kind = "list"


\* the fenced blocks of a response: an opening fence at o, a language tag
\* of word characters or none, the line feed at b that ends the opening
\* line, the inner content, and the closing fence at f, the first fence
\* after b, at the start of a line; the inner content holds no backtick
FencedBlocks(ps) ==
    {blk \in [o : 1..Len(ps), b : 1..Len(ps), f : 1..Len(ps)] :
        /\ ps[blk.o] = "fence"
        /\ blk.b = RunEnd(ps, RunEnd(ps, blk.o + 1, {"w"}), {"sp"})
        /\ blk.b <= Len(ps) /\ ps[blk.b] = "nl"
        /\ blk.f > blk.b /\ ps[blk.f] = "fence" /\ ps[blk.f - 1] = "nl"
        /\ \A k \in (blk.b + 1)..(blk.f - 1) : ps[k] \notin {"fence", "tick"}}

\* the inner content of a fenced block: what is between the line feed of
\* the opening line and the line feed before the closing fence
InnerOf(ps, blk) ==
    IF blk.f - 2 < blk.b + 1 THEN <<>> ELSE SubSeq(ps, blk.b + 1, blk.f - 2)

\* the first fenced block of a response
FirstBlock(ps) ==
    CHOOSE blk \in FencedBlocks(ps) : \A x \in FencedBlocks(ps) : blk.o <= x.o

\* the tag pairs of a response: an opening tag and the first closing tag
\* after it
TagPairs(ps) ==
    {pr \in [o : 1..Len(ps), c : 1..Len(ps)] :
        /\ ps[pr.o] = "open" /\ pr.c > pr.o /\ ps[pr.c] = "close"
        /\ \A k \in (pr.o + 1)..(pr.c - 1) : ps[k] # "close"}

FirstPair(ps) ==
    CHOOSE pr \in TagPairs(ps) : \A x \in TagPairs(ps) : pr.o <= x.o

\* the inline spans of a response: two backticks and, between them, at
\* least one character and no backtick
InlineSpans(ps) ==
    {sp \in [o : 1..Len(ps), c : 1..Len(ps)] :
        /\ ps[sp.o] = "tick" /\ sp.c > sp.o + 1 /\ ps[sp.c] = "tick"
        /\ \A k \in (sp.o + 1)..(sp.c - 1) : ps[k] \notin {"fence", "tick"}}

FirstSpan(ps) ==
    CHOOSE sp \in InlineSpans(ps) : \A x \in InlineSpans(ps) : sp.o <= x.o

Has(ps, piece) == \E k \in 1..Len(ps) : ps[k] = piece

\* C26: extract tries its patterns in strict priority order: the inner
\* content of a fenced block, trimmed, wins over a tag pair, which wins
\* over an inline span, wherever they are in the text; when there is none
\* of them the whole input is returned unchanged
C26_StrictPriority ==
    mode = "extract" /\ res.done =>
        IF FencedBlocks(arg) # {}
        THEN res.code = Trim(TextOf(InnerOf(arg, FirstBlock(arg))))
        ELSE IF Has(arg, "fence") THEN TRUE
        ELSE IF TagPairs(arg) # {}
        THEN res.code = Trim(TextOf(SubSeq(arg, FirstPair(arg).o + 1,
                                           FirstPair(arg).c - 1)))
        ELSE IF InlineSpans(arg) # {}
        THEN res.code = Trim(TextOf(SubSeq(arg, FirstSpan(arg).o + 1,
                                           FirstSpan(arg).c - 1)))
        ELSE IF Has(arg, "tick") THEN TRUE
        ELSE res.code = TextOf(arg)

\* C26 (what does hold): the same, of the fenced blocks whose inner
\* content is not empty and not line feeds only, and of the tag pairs with
\* something between the tags
C26_StrictPriorityOfNonEmpty ==
    mode = "extract" /\ res.done =>
        IF FencedBlocks(arg) # {}
        THEN (\E k \in 1..Len(InnerOf(arg, FirstBlock(arg))) :
                  InnerOf(arg, FirstBlock(arg))[k] # "nl")
                 => res.code = Trim(TextOf(InnerOf(arg, FirstBlock(arg))))
        ELSE IF Has(arg, "fence") THEN TRUE
        ELSE IF TagPairs(arg) # {}
        THEN FirstPair(arg).c > FirstPair(arg).o + 1
                 => res.code = Trim(TextOf(SubSeq(arg, FirstPair(arg).o + 1,
                                                  FirstPair(arg).c - 1)))
        ELSE IF InlineSpans(arg) # {}
        THEN res.code = Trim(TextOf(SubSeq(arg, FirstSpan(arg).o + 1,
                                           FirstSpan(arg).c - 1)))
        ELSE IF Has(arg, "tick") THEN TRUE
        ELSE res.code = TextOf(arg)

\* the response holds exactly one fenced block: two fences, which are the
\* opening and the closing fence of a block, and no backtick beside them
HasOneFencedBlock(ps) ==
    /\ Cardinality({k \in 1..Len(ps) : ps[k] = "fence"}) = 2
    /\ FencedBlocks(ps) # {}
    /\ \A k \in 1..(Len(ps) - 1) :
           {ps[k], ps[k + 1]} \notin {{"fence", "tick"}, {"fence"}}

\* C27: extract round-trips a fenced block: for every text that holds
\* exactly one fenced block, with or without a language tag, its inner
\* content empty or white space only included, the returned string is the
\* inner content trimmed, and holds no fence marker and no language tag
C27_FencedBlockRoundTrip ==
    mode = "extract" /\ res.done /\ HasOneFencedBlock(arg) =>
        /\ res.code = Trim(TextOf(InnerOf(arg, FirstBlock(arg))))
        /\ \A k \in 1..Len(res.code) : res.code[k] # "bt"

----------------------------------------------------------------------------
(* The Learning task of the Listr pipeline: every learning document is    *)
(* sent to the Agent before the Testing task begins.                      *)
(*                                                                         *)
(* SpecLearn  the Learning task, up to the start of the Testing task      *)

\* learnings.length
MaxLearnings == 3

\* constructor(private maxDisplay: number = 10)
maxDisplay == 10

totalLearn == MaxLearnings

\* learnings[k]: the file of the document and its correlation id
LearningOf(k) == [file |-> <<"file", k>>, uid |-> <<"uid", k>>]

\* await Bun.file(learning.file).text()
TextOfFile(file) == <<"text of", file>>

\* the span of processLearning: `Learning ${index + 1}/${total} [...]`
LearningSpan(k) == <<"Learning", k>>

\* progress.add(label): the item is pushed with the status of an item in
\* progress, the first item is dropped beyond maxDisplay
ProgressAdd(items, label) ==
    LET xs == Append(items, [label |-> label, status |-> "in progress"]) IN
    IF Len(xs) > maxDisplay THEN Tail(xs) ELSE xs

\* progress.updateLast(status)
ProgressUpdateLast(items, status) ==
    IF items = <<>> THEN items
    ELSE [items EXCEPT ![Len(items)].status = status]

\* for (let i = 0; i < total; i++) { ...; progress.add(learning.file);
\* processLearning: withSpan starts the span, Bun.file(...).text() is awaited
LearnStart ==
    /\ mode = "learn" /\ lpc = "loop" /\ li <= totalLearn
    /\ progress' = ProgressAdd(progress, LearningOf(li).file)
    /\ spans' = Append(spans, SpanStarted(LearningSpan(li)))
    /\ lpc' = "read_wait"
    /\ UNCHANGED <<mode, conf, li, i, run, pc, log, outcome, testResults, aborted,
                   spanStatus, finalScore, title, sent, timings, testVars,
                   unitVars, pureVars>>

\* the text of the file is read and callAgent(file, learning.uid) is called;
\* or the read fails: withSpan ends the span and rethrows, processLearning
\* rethrows what is not an AgentCallError, and the task fails
LearnFileRead ==
    /\ mode = "learn" /\ lpc = "read_wait"
    /\ \E ok \in BOOLEAN :
        IF ok
        THEN /\ sent' = Append(sent, [text |-> TextOfFile(LearningOf(li).file),
                                      uid |-> LearningOf(li).uid])
             /\ lpc' = "call_wait"
             /\ UNCHANGED <<spans, aborted>>
        ELSE /\ spans' = Append(spans, SpanEnded(LearningSpan(li)))
             /\ aborted' = [by |-> li, error |-> "file not read"]
             /\ lpc' = "aborted"
             /\ UNCHANGED sent
    /\ UNCHANGED <<mode, conf, li, progress, i, run, pc, log, outcome, testResults,
                   spanStatus, finalScore, title, timings, testVars, unitVars,
                   pureVars>>

\* mutant: a failed call of a learning document ends the Learning task
LearnCallReturnStopsOnFailure ==
    /\ mode = "learn" /\ lpc = "call_wait"
    /\ \E reply \in AgentReplies :
        LET r == callAgent(reply) IN
        /\ spans' = Append(spans, SpanEnded(LearningSpan(li)))
        /\ IF r.ok
           THEN /\ timings' = [timings EXCEPT !.learn = @ + 1]
                /\ progress' = ProgressUpdateLast(progress, "ok")
                /\ li' = li + 1
                /\ lpc' = "loop"
                /\ UNCHANGED aborted
           ELSE /\ aborted' = [by |-> li, error |-> r.error]
                /\ lpc' = "aborted"
                /\ UNCHANGED <<timings, progress, li>>
    /\ UNCHANGED <<mode, conf, i, run, pc, log, outcome, testResults, spanStatus,
                   finalScore, title, sent, testVars, unitVars, pureVars>>

\* callAgent(file, learning.uid) settles: withSpan ends the span; on success
\* timings.learn.push(ms); an AgentCallError is returned as { success:
\* false, error }; the item of the document is updated; i++
LearnCallReturn ==
    /\ mode = "learn" /\ lpc = "call_wait"
    /\ \E reply \in AgentReplies :
        LET r == callAgent(reply) IN
        /\ spans' = Append(spans, SpanEnded(LearningSpan(li)))
        /\ IF r.ok
           THEN /\ timings' = [timings EXCEPT !.learn = @ + 1]
                /\ progress' = ProgressUpdateLast(progress, "ok")
                /\ li' = li + 1
                /\ lpc' = "loop"
                /\ UNCHANGED aborted
           ELSE IF IsAgentCallError(r.error)
           THEN /\ progress' = ProgressUpdateLast(progress, r.error)
                /\ li' = li + 1
                /\ lpc' = "loop"
                /\ UNCHANGED <<timings, aborted>>
           ELSE /\ aborted' = [by |-> li, error |-> r.error]
                /\ lpc' = "aborted"
                /\ UNCHANGED <<timings, progress, li>>
    /\ UNCHANGED <<mode, conf, i, run, pc, log, outcome, testResults, spanStatus,
                   finalScore, title, sent, testVars, unitVars, pureVars>>

\* the loop ends: task.title = `Learning [${total}/${total}] - Complete`
LearnDone ==
    /\ mode = "learn" /\ lpc = "loop" /\ li > totalLearn
    /\ lpc' = "complete"
    /\ UNCHANGED <<mode, conf, li, progress, fullVars, testVars, unitVars, pureVars>>

\* Listr runs the next task of the list, Testing: ctx.testResults = []
StartTesting ==
    /\ mode = "learn" /\ lpc = "complete"
    /\ lpc' = "testing"
    /\ testResults' = <<>>
    /\ UNCHANGED <<mode, conf, li, progress, i, run, pc, log, outcome, aborted,
                   spanStatus, finalScore, title, sent, timings, spans, testVars,
                   unitVars, pureVars>>

InitLearn ==
    /\ mode = "learn"
    /\ conf = ShippedConf
    /\ InitFullVars
    /\ li = 1
    /\ lpc = "loop"
    /\ progress = <<>>
    /\ InitTestVars
    /\ InitUnitVars
    /\ InitPureVars

NextLearn ==
    \/ LearnStart
    \/ LearnFileRead
    \/ LearnCallReturn
    \/ LearnDone
    \/ StartTesting

SpecLearn == InitLearn /\ [][NextLearn]_vars

----------------------------------------------------------------------------
(* Claims C31..C38 *)

\* the call of each conversation: its text and the correlation id it is
\* sent under
OwnCalls ==
    {[text |-> "algorithmText", uid |-> "uuidConflictingDocs"],
     [text |-> "prompt", uid |-> "uuid"],
     [text |-> "feedbackMsg", uid |-> "uuidFeedback"]}

\* C31: every Agent call of a run is sent under the correlation id of its
\* own conversation: the teaching text under the conflicting-docs id, the
\* task prompt under the primary id, the feedback message under the
\* feedback id, and no call under another id or without an id
C31_CallsUnderOwnId ==
    mode = "full" => \A k \in 1..Len(sent) : sent[k] \in OwnCalls

\* a run that made the three calls
C31_Witness ==
    /\ mode = "full"
    /\ {sent[k] : k \in 1..Len(sent)} = OwnCalls

\* the run in progress has ended Failed in phase ph
FailedIn(ph) ==
    /\ pc = "terminal"
    /\ outcome[i].status = "Failed"
    /\ outcome[i].phase = ph

\* the number of calls of the run in progress sent under the id f
CallsUnder(f) == Cardinality({k \in 1..Len(sent) : sent[k].uid = f})

\* C34: no phase is retried: a run issues at most one Agent call under each
\* of its three correlation ids, hence at most three calls, and after a
\* recoverable failure of ConflictTeaching or Generation the failed call is
\* the last call of the run
C34_NoPhaseRetried ==
    mode = "full" =>
        /\ \A f \in {"uuidConflictingDocs", "uuid", "uuidFeedback"} :
              CallsUnder(f) <= 1
        /\ Len(sent) <= 3
        /\ FailedIn("ConflictTeaching") =>
              sent = <<[text |-> "algorithmText", uid |-> "uuidConflictingDocs"]>>
        /\ FailedIn("Generation") =>
              /\ sent # <<>>
              /\ sent[Len(sent)] = [text |-> "prompt", uid |-> "uuid"]

\* a taught run whose Generation call failed
C34_Witness ==
    /\ mode = "full"
    /\ FailedIn("Generation")
    /\ outcome[i].error \in AgentCallErrors
    /\ Len(sent) = 2

\* C33: when a run ends Failed because of a recoverable call failure in
\* ConflictTeaching, Generation or Feedback, its run-level span ends with
\* the status ERROR carrying the failure message
C33_FailedRunEndsWithErrorStatus ==
    mode = "full" =>
        \A r \in 1..total :
            outcome[r].status = "Failed" =>
                spanStatus[r] = Error(outcome[r].error)

\* the exceptions of the Feedback collaborator
MentorErrors == UNION {generateFeedback(c) : c \in Confs} \ {NoError}

\* run r has a score in the collection
ScoreRecorded(r) == \E k \in 1..Len(testResults) : testResults[k].idx = r

\* C37: an exception raised by the Feedback collaborator is not treated as
\* a recoverable call failure: it propagates and aborts the batch, and the
\* score the run recorded before Feedback stays in the collection
C37_MentorExceptionAbortsBatch ==
    mode = "full" =>
        \A r \in 1..total :
            outcome[r].error \in MentorErrors =>
                /\ outcome[r].status = "Aborted"
                /\ pc = "aborted" /\ i = r
                /\ aborted = [by |-> r, error |-> outcome[r].error]
                /\ \A later \in (r + 1)..total : outcome[later] = Pending
                /\ finalScore = "none"
                /\ ScoreRecorded(r)

\* the feedback model of an edited conf.ts threw while the second run was
\* in Feedback
C37_Witness ==
    /\ mode = "full"
    /\ pc = "aborted"
    /\ aborted = [by |-> 2, error |-> "feedback model error"]
    /\ Len(testResults) = 2

\* the step settles the call
Settles == call.pc # "done" /\ call'.pc = "done"

\* C38: each callAgent invocation yields exactly one outcome, a response or
\* an AgentCallError, and keeps it; a timer that fires before the response
\* is read and validated yields the Timeout AgentCallError; the timer is
\* pending only while the call is, and is cleared however the call ends
C38_OneOutcomeAndNoPendingTimer ==
    [][mode = "call" =>
        /\ call.pc = "done" => call' = call
        /\ call.pc # "done" => call.result = NoResult
        /\ Settles =>
            /\ \/ call'.result.kind = "returned"
               \/ /\ call'.result.kind = "thrown"
                  /\ call'.result.class = "AgentCallError"
            /\ call'.timer = "cleared"
        /\ (call.timer = "armed" /\ call'.cause = "abort") =>
            /\ call.pc \in {"fetch", "json"}
            /\ Settles
            /\ call'.result = Thrown("AgentCallError", "Timeout")
        /\ call'.timer = "armed" <=> call'.pc \in {"fetch", "json"}
      ]_vars

\* the timer fired while the body of a 200 response was being read
C38_Witness ==
    /\ mode = "call" /\ call.pc = "done"
    /\ call.status = 200
    /\ call.cause = "abort"
    /\ call.timer = "cleared"
    /\ call.result = Thrown("AgentCallError", "Timeout")

\* the spans of withSpan in the sequential runner
SpanNames ==
    {"Run", "Learning Conflicting Algorithm", "Agent Call", "Testing",
     "Feedback"}

\* the parent of each span
ParentOf ==
    [n \in SpanNames \ {"Run"} |-> IF n = "Testing" THEN "Agent Call" ELSE "Run"]

RECURSIVE Nested(_, _)
\* the events evs, read with the spans of `stack` open (innermost first),
\* start every span under its parent and at most once, end only the
\* innermost open span, and leave no span open
Nested(evs, stack) ==
    IF evs = <<>> THEN stack = <<>>
    ELSE LET e == Head(evs) IN
         /\ e.span \in SpanNames
         /\ IF e.ev = "start"
            THEN /\ IF stack = <<>> THEN e.span = "Run"
                    ELSE e.span # "Run" /\ ParentOf[e.span] = Head(stack)
                 /\ \A k \in 2..Len(evs) : evs[k].span # e.span \/ evs[k].ev = "end"
                 /\ Nested(Tail(evs), <<e.span>> \o stack)
            ELSE /\ stack # <<>>
                 /\ Head(stack) = e.span
                 /\ \A k \in 2..Len(evs) : evs[k].span # e.span
                 /\ Nested(Tail(evs), Tail(stack))

\* C32: every span opened by withSpan is ended exactly once, whether its
\* body returns or throws, and a child span ends before its parent ends
\* (Testing before Agent Call, Agent Call and Feedback before the run-level
\* span): so reads the record of every run whose body returned or threw
C32_SpansEndOnceChildFirst ==
    (mode = "full" /\ pc \in {"terminal", "aborted"}) =>
        /\ spans # <<>>
        /\ Nested(spans, <<>>)

\* the interpreter failed while the Testing span was open: the exception
\* ended Testing, Agent Call and the run-level span, in that order
C32_Witness ==
    /\ mode = "full" /\ pc = "aborted"
    /\ Len(spans) = 6
    /\ SubSeq(spans, 4, 6) =
          <<SpanEnded("Testing"), SpanEnded("Agent Call"), SpanEnded("Run")>>

\* the call that sends learning document k
LearningCall(k) ==
    [text |-> TextOfFile(LearningOf(k).file), uid |-> LearningOf(k).uid]

\* C35: the Learning phase sends every learning document to the Agent one
\* at a time in list order and finishes before the Testing task starts; a
\* recoverable call failure on a document is reported for that document and
\* stops neither the later documents nor the Testing task
C35_LearningInOrderBeforeTesting ==
    mode = "learn" =>
        /\ \A k \in 1..Len(sent) : sent[k] = LearningCall(k)
        /\ Len(sent) = IF lpc = "call_wait" THEN li ELSE li - 1
        /\ \A k \in 1..(li - 1) :
            /\ progress[k].label = LearningOf(k).file
            /\ progress[k].status \in {"ok"} \cup AgentCallErrors
        /\ lpc \in {"complete", "testing"} => Len(sent) = totalLearn
        /\ lpc = "aborted" => ~IsAgentCallError(aborted.error)

\* the Testing task starts after the call of the first document timed out
\* and the later documents were sent
C35_Witness ==
    /\ mode = "learn" /\ lpc = "testing"
    /\ Len(sent) = totalLearn
    /\ progress[1].status = "Timeout"
    /\ progress[totalLearn].status = "ok"

\* the pipeline of the sequential runner: the Learning task, and the
\* Testing task
SpecPipeline == (Init \/ InitLearn) /\ [][Next \/ NextLearn]_vars

\* the entries of a log
EntriesOf(lg) == {lg[k] : k \in 1..Len(lg)}

\* the step is the successful return of a learning, ConflictTeaching or
\* Feedback Agent call
TeachingCallSucceeds ==
    \/ /\ mode = "learn" /\ lpc = "call_wait"
       /\ progress'[Len(progress')].status = "ok"
    \/ /\ mode = "full" /\ pc = "teach_wait"
       /\ "ConflictTeaching/" \in EntriesOf(log')
    \/ /\ mode = "full" /\ pc = "fb_wait"
       /\ "Feedback/" \in EntriesOf(log')

\* the step is the failure of an Agent call
AgentCallFails ==
    \/ /\ mode = "learn" /\ lpc = "call_wait"
       /\ progress'[Len(progress')].status # "ok"
    \/ /\ mode = "full" /\ pc \in {"teach_wait", "gen_wait", "fb_wait"}
       /\ "AgentCallError" \in EntriesOf(log')

\* C36: between runs of a sequential batch the task bucket holds as many
\* latencies as the collection holds Run Outcomes; the teaching bucket gets
\* exactly one latency per successful learning, ConflictTeaching and
\* Feedback Agent call; a failed call adds no latency to either bucket
C36_BucketsCountSuccessfulCalls ==
    /\ []((mode = "full" /\ pc \in {"loop", "done"}) =>
              timings.task = Len(testResults))
    /\ [][/\ timings'.learn =
                timings.learn + (IF TeachingCallSucceeds THEN 1 ELSE 0)
          /\ timings'.task >= timings.task
          /\ AgentCallFails => timings' = timings
         ]_vars

\* between the second run and the end of the batch: the first run was
\* taught and failed in Generation, the second was taught, scored and
\* given feedback
C36_Witness ==
    /\ mode = "full" /\ pc = "loop" /\ i = 3
    /\ outcome[1].status = "Failed"
    /\ timings = [learn |-> 3, task |-> 1]

====
